---- MODULE Spec2Model ----
(***************************************************************************)
(* Mechanical rigger: hierarchy analysis (analyze_hierarchy), skeleton     *)
(* synthesis (create_armature) and control generation (apply_controls)     *)
(* of src/src/mechanical_rigger/utils.py.                                   *)
(*                                                                         *)
(* Lengths are fixed-point numbers with two decimals (100 stands for 1.0); *)
(* rotation-limit angles are counted in steps of 0.0005 rad.               *)
(***************************************************************************)
EXTENDS Integers, Sequences, FiniteSets, TLC

VARIABLES selected, symmetric_origin, rig_data, armature, scene, report, prev, lastOp, builds, edits, probe,
          run, ui

vars == <<selected, symmetric_origin, rig_data, armature, scene, report, prev, lastOp, builds, edits, probe,
          run, ui>>

(***************************************************************************)
(* Bounds                                                                  *)
(***************************************************************************)
MaxBuilds == 2

MaxEdits == 3

MaxReflections == 4

MaxRuns == 3

MaxApplies == 2

(***************************************************************************)
(* Python string operations used on object, collection and bone names      *)
(***************************************************************************)
StartsWith(s, p) == Len(s) >= Len(p) /\ SubSeq(s, 1, Len(p)) = p

EndsWith(s, p) == Len(s) >= Len(p) /\ SubSeq(s, Len(s) - Len(p) + 1, Len(s)) = p

MatchAt(s, i, p) == i >= 1 /\ i + Len(p) - 1 <= Len(s) /\ SubSeq(s, i, i + Len(p) - 1) = p

Contains(s, p) == \E i \in 1..Len(s) : MatchAt(s, i, p)

RECURSIVE RemoveAll(_, _)
RemoveAll(s, p) ==
  IF ~Contains(s, p) THEN s
  ELSE LET i == CHOOSE k \in 1..Len(s) : MatchAt(s, k, p) /\ \A j \in 1..(k - 1) : ~MatchAt(s, j, p)
       IN SubSeq(s, 1, i - 1) \o RemoveAll(SubSeq(s, i + Len(p), Len(s)), p)

(***************************************************************************)
(* Vectors and rigid world matrices                                        *)
(***************************************************************************)
Vec(a, b, c) == <<a, b, c>>

VAdd(u, v) == <<u[1] + v[1], u[2] + v[2], u[3] + v[3]>>

VSub(u, v) == <<u[1] - v[1], u[2] - v[2], u[3] - v[3]>>

VScale(u, k) == <<u[1] * k, u[2] * k, u[3] * k>>

VHalf(u) == <<u[1] \div 2, u[2] \div 2, u[3] \div 2>>

Sgn(a) == IF a > 0 THEN 1 ELSE IF a < 0 THEN -1 ELSE 0

Abs(a) == IF a < 0 THEN -a ELSE a

Max(a, b) == IF a >= b THEN a ELSE b

\* Vector.normalized() of an axis-aligned vector (all matrices of the scene
\* are axis-aligned, possibly scaled); the zero vector stays zero.
Normalized(v) == <<Sgn(v[1]), Sgn(v[2]), Sgn(v[3])>>

\* a matrix is [x, y, z: the columns of its 3x3 part, t: its translation]
Mat(cx, cy, cz, ct) == [x |-> cx, y |-> cy, z |-> cz, t |-> ct]

To3x3Mul(m, v) == VAdd(VAdd(VScale(m.x, v[1]), VScale(m.y, v[2])), VScale(m.z, v[3]))

MatMul(a, b) ==
  [x |-> To3x3Mul(a, b.x), y |-> To3x3Mul(a, b.y), z |-> To3x3Mul(a, b.z),
   t |-> VAdd(To3x3Mul(a, b.t), a.t)]

\* Matrix.inverted() of an unscaled rigid matrix: transposed rotation
Inverted(m) ==
  LET r == [x |-> <<m.x[1], m.y[1], m.z[1]>>, y |-> <<m.x[2], m.y[2], m.z[2]>>,
            z |-> <<m.x[3], m.y[3], m.z[3]>>, t |-> <<0, 0, 0>>]
  IN [r EXCEPT !.t = VScale(To3x3Mul(r, m.t), -1)]

\* mathutils.Matrix.Scale(-1, 4, (1, 0, 0))
MirrorMat == Mat(<<-1, 0, 0>>, <<0, 1, 0>>, <<0, 0, 1>>, <<0, 0, 0>>)

(***************************************************************************)
(* The scene: objects, their parents, collections and world matrices       *)
(***************************************************************************)
None == ""

Identity3(t) == Mat(<<1, 0, 0>>, <<0, 1, 0>>, <<0, 0, 1>>, t)

SceneObject(p, cols, m, d) == [parent |-> p, users_collection |-> cols, matrix_world |-> m, dimensions_length |-> d]

SceneOrder ==
  <<"BodyMesh", "ArmMesh", "Hinge_Elbow", "Hinge_Cyl", "RodMesh", "ClawMesh", "Loose",
    "SideCyl", "SideRod", "PinMesh", "Bolt", "Plate", "Hinge_Base", "Hinge_Top", "Hinge_Arm",
    "HookMesh">>

ObjectNames == {SceneOrder[i] : i \in 1..Len(SceneOrder)}

Objects ==
  [n \in ObjectNames |->
     CASE n = "BodyMesh" -> SceneObject(None, <<"Body">>, Identity3(<<0, 0, 0>>), 340)
       [] n = "ArmMesh" -> SceneObject("BodyMesh", <<"Arm_Mirrored">>, Identity3(<<200, 50, 0>>), 180)
       [] n = "Hinge_Elbow" -> SceneObject("ArmMesh", <<"Forearm">>,
                                 Mat(<<0, 1, 0>>, <<-1, 0, 0>>, <<0, 0, 1>>, <<300, 0, 100>>), 20)
       [] n = "Hinge_Cyl" -> SceneObject("BodyMesh", <<"Piston_1_Cyl">>,
                                 Mat(<<2, 0, 0>>, <<0, 0, 2>>, <<0, -2, 0>>, <<0, 100, 0>>), 100)
       [] n = "RodMesh" -> SceneObject("BodyMesh", <<"Piston_1_Rod">>, Identity3(<<0, 300, 0>>), 100)
       [] n = "ClawMesh" -> SceneObject("Hinge_Cyl", <<"Claw">>, Identity3(<<0, 100, 200>>), 60)
       [] n = "Loose" -> SceneObject("BodyMesh", <<>>, Identity3(<<100, 100, 100>>), 40)
       [] n = "SideCyl" -> SceneObject("ArmMesh", <<"Piston_1_Cyl_Mirrored">>, Identity3(<<250, 50, 100>>), 80)
       [] n = "SideRod" -> SceneObject("ArmMesh", <<"Piston_1_Rod_Mirrored">>, Identity3(<<250, 150, 100>>), 80)
       [] n = "PinMesh" -> SceneObject("BodyMesh", <<"Hinge_Pin">>, Identity3(<<0, 0, 200>>), 30)
       [] n = "Bolt" -> SceneObject("ClawMesh", <<"Body">>, Identity3(<<0, 100, 250>>), 10)
       [] n = "Plate" -> SceneObject("BodyMesh", <<"Body">>, Identity3(<<0, 0, 50>>), 120)
       [] n = "Hinge_Base" -> SceneObject("BodyMesh", <<"Body">>, Identity3(<<0, 50, 50>>), 20)
       [] n = "Hinge_Top" -> SceneObject("Plate", <<"Body">>, Identity3(<<0, 0, 150>>), 20)
       [] n = "Hinge_Arm" -> SceneObject("ArmMesh", <<"Arm_Mirrored">>, Identity3(<<200, 100, 0>>), 20)
       [] n = "HookMesh" -> SceneObject("BodyMesh", <<"Body_IK">>, Identity3(<<0, 0, 50>>), 120)]

OriginNames == {"Origin", "OriginTurned"}

Origins ==
  [n \in OriginNames |->
     CASE n = "Origin" -> Identity3(<<0, 0, 0>>)
       [] n = "OriginTurned" -> Mat(<<0, 1, 0>>, <<-1, 0, 0>>, <<0, 0, 1>>, <<100, 0, 0>>)]

\* filter of a sequence by membership, order kept
RECURSIVE SelectIn(_, _)
SelectIn(seq, S) ==
  IF seq = <<>> THEN <<>>
  ELSE (IF Head(seq) \in S THEN <<Head(seq)>> ELSE <<>>) \o SelectIn(Tail(seq), S)

\* a variant that hands the children over in the reverse order
ChildrenIn_reversed(obj, sel) ==
  LET kids == SelectIn(SceneOrder, {o \in sel : Objects[o].parent = obj})
  IN [i \in 1..Len(kids) |-> kids[Len(kids) + 1 - i]]

\* obj.children restricted to the selection, in scene order
ChildrenIn(obj, sel) == SelectIn(SceneOrder, {o \in sel : Objects[o].parent = obj})

\* the objects whose every selection is analysed and synthesized
SynthObjects ==
  {"BodyMesh", "ArmMesh", "Hinge_Elbow", "Hinge_Cyl", "RodMesh", "ClawMesh", "Loose",
   "SideCyl", "SideRod", "PinMesh", "Bolt"}

\* the objects around the groups that hold several objects of one collection
PivotObjects == {"BodyMesh", "ArmMesh", "Hinge_Elbow", "Plate", "Hinge_Base", "Hinge_Top", "Hinge_Arm"}

(***************************************************************************)
(* The piston naming pattern  Piston_(.+?)_(Cyl|Rod)                        *)
(***************************************************************************)
NoMatch == [ok |-> FALSE, pid |-> "", ptype |-> "", end |-> 0]

TypeAt(s, j) == MatchAt(s, j, "_Cyl") \/ MatchAt(s, j, "_Rod")

\* the pattern tried at position i: the id is the shortest non-empty text
\* that is followed by _Cyl or _Rod
PistonMatchAt(s, i) ==
  IF MatchAt(s, i, "Piston_") /\ \E j \in (i + 8)..Len(s) : TypeAt(s, j)
  THEN LET j == CHOOSE k \in (i + 8)..Len(s) : TypeAt(s, k) /\ \A l \in (i + 8)..(k - 1) : ~TypeAt(s, l)
       IN [ok |-> TRUE, pid |-> SubSeq(s, i + 7, j - 1), ptype |-> SubSeq(s, j + 1, j + 3), end |-> j + 3]
  ELSE NoMatch

\* re.match: at the start of the text
re_match_piston(s) == PistonMatchAt(s, 1)

\* re.search: at the leftmost position where the pattern matches
re_search_piston(s) ==
  IF \E i \in 1..Len(s) : PistonMatchAt(s, i).ok
  THEN PistonMatchAt(s, CHOOSE i \in 1..Len(s) : /\ PistonMatchAt(s, i).ok
                                                 /\ \A j \in 1..(i - 1) : ~PistonMatchAt(s, j).ok)
  ELSE NoMatch

(***************************************************************************)
(* Step 0: validate_selection                                              *)
(***************************************************************************)
uses_mirrored_collection(sel) ==
  \E o \in sel : \E i \in 1..Len(Objects[o].users_collection) :
     Contains(Objects[o].users_collection[i], "_Mirrored")

\* the piston match of the first collection of an object
ObjectPistonMatch(o) ==
  IF Objects[o].users_collection = <<>> THEN NoMatch
  ELSE re_match_piston(RemoveAll(Objects[o].users_collection[1], "_Mirrored"))

\* pistons[pid]: the member types the selection holds of one piston
PistonTypesOf(sel, pid) ==
  {ObjectPistonMatch(o).ptype : o \in {x \in sel : ObjectPistonMatch(x).ok /\ ObjectPistonMatch(x).pid = pid}}

\* a variant without the check of the mirroring requirements
validate_selection_any_origin(sel, origin) ==
  /\ sel # {}
  /\ \A o \in sel : ObjectPistonMatch(o).ok => PistonTypesOf(sel, ObjectPistonMatch(o).pid) = {"Cyl", "Rod"}

\* TRUE when the list of errors is empty
validate_selection(sel, origin) ==
  /\ sel # {}
  /\ ~(uses_mirrored_collection(sel) /\ origin = None)
  /\ \A o \in sel : ObjectPistonMatch(o).ok => PistonTypesOf(sel, ObjectPistonMatch(o).pid) = {"Cyl", "Rod"}

(***************************************************************************)
(* Step 1: analyze_hierarchy                                               *)
(***************************************************************************)
\* BoneNode.__init__
BoneNode(name, origin_obj, side) ==
  [name |-> name, origin_obj |-> origin_obj, parent |-> 0, children |-> <<>>,
   is_mirrored_side |-> side, sibling_r |-> 0]

\* BoneNode.add_child on the node table: parent and child are indices
add_child(nodes, p, c) ==
  [nodes EXCEPT ![p].children = Append(@, c), ![c].parent = p]

obj_to_col(obj) == Objects[obj].users_collection[1]

RECURSIVE traverse(_, _, _, _, _)
RECURSIVE traverse_children(_, _, _, _, _)
traverse_children(children, node_l, node_r, F, sel) ==
  IF children = <<>> THEN F
  ELSE traverse_children(Tail(children), node_l, node_r,
                         traverse(Head(children), node_l, node_r, F, sel), sel)

\* a variant that hangs the Right node under the Left parent
traverse_right_under_left(obj, parent_node_l, parent_node_r, F, sel) ==
  LET col == obj_to_col(obj)
      base_name == RemoveAll(col, "_Mirrored")
      il == Len(F.nodes) + 1
      ir == Len(F.nodes) + 2
  IN IF parent_node_l = 0 \/ obj_to_col(F.nodes[parent_node_l].origin_obj) # col
     THEN IF Contains(col, "_Mirrored")
          THEN LET n0 == F.nodes \o <<[BoneNode(base_name \o "_L", obj, "L") EXCEPT !.sibling_r = ir],
                                      BoneNode(base_name \o "_R", obj, "R")>>
               IN traverse_children(
                    ChildrenIn(obj, sel), il, ir,
                    [nodes |-> IF parent_node_l # 0 THEN add_child(add_child(n0, parent_node_l, il), parent_node_l, ir)
                               ELSE n0,
                     roots |-> IF parent_node_l # 0 THEN F.roots ELSE F.roots \o <<il, ir>>],
                    sel)
          ELSE LET n0 == Append(F.nodes, BoneNode(base_name, obj, "None"))
               IN traverse_children(
                    ChildrenIn(obj, sel), il, 0,
                    [nodes |-> IF parent_node_l # 0 THEN add_child(n0, parent_node_l, il) ELSE n0,
                     roots |-> IF parent_node_l # 0 THEN F.roots ELSE Append(F.roots, il)],
                    sel)
     ELSE traverse_children(ChildrenIn(obj, sel), parent_node_l, parent_node_r, F, sel)

traverse(obj, parent_node_l, parent_node_r, F, sel) ==
  LET col == obj_to_col(obj)
      is_new_bone == \/ parent_node_l = 0
                     \/ obj_to_col(F.nodes[parent_node_l].origin_obj) # col
      base_name == RemoveAll(col, "_Mirrored")
      il == Len(F.nodes) + 1
      ir == Len(F.nodes) + 2
  IN IF is_new_bone
     THEN IF Contains(col, "_Mirrored")
          THEN LET n0 == F.nodes \o <<[BoneNode(base_name \o "_L", obj, "L") EXCEPT !.sibling_r = ir],
                                      BoneNode(base_name \o "_R", obj, "R")>>
                   n1 == IF parent_node_l # 0 THEN add_child(n0, parent_node_l, il) ELSE n0
                   r1 == IF parent_node_l # 0 THEN F.roots ELSE Append(F.roots, il)
                   n2 == IF parent_node_r # 0 THEN add_child(n1, parent_node_r, ir)
                         ELSE IF parent_node_l # 0 THEN add_child(n1, parent_node_l, ir)
                         ELSE n1
                   r2 == IF parent_node_r = 0 /\ parent_node_l = 0 THEN Append(r1, ir) ELSE r1
               IN traverse_children(ChildrenIn(obj, sel), il, ir, [nodes |-> n2, roots |-> r2], sel)
          ELSE LET n0 == Append(F.nodes, BoneNode(base_name, obj, "None"))
                   n1 == IF parent_node_l # 0 THEN add_child(n0, parent_node_l, il) ELSE n0
                   r1 == IF parent_node_l # 0 THEN F.roots ELSE Append(F.roots, il)
               IN traverse_children(ChildrenIn(obj, sel), il, 0, [nodes |-> n1, roots |-> r1], sel)
     ELSE LET n1 == IF parent_node_l # 0 /\ StartsWith(obj, "Hinge_")
                    THEN IF parent_node_r # 0
                         THEN [F.nodes EXCEPT ![parent_node_l].origin_obj = obj,
                                              ![parent_node_r].origin_obj = obj]
                         ELSE [F.nodes EXCEPT ![parent_node_l].origin_obj = obj]
                    ELSE F.nodes
          IN traverse_children(ChildrenIn(obj, sel), parent_node_l, parent_node_r,
                               [nodes |-> n1, roots |-> F.roots], sel)

\* a variant that takes only parentless objects for roots
SelectionRoots_parentless(sel) == SelectIn(SceneOrder, {o \in sel : Objects[o].parent = None})

\* roots of the selection: parent is None or not selected
SelectionRoots(sel) ==
  SelectIn(SceneOrder, {o \in sel : Objects[o].parent = None \/ Objects[o].parent \notin sel})

HasNoCollection(obj) == Objects[obj].users_collection = <<>>

\* a variant that never reports a missing root
NoRootFound_never(roots) == FALSE

NoRootFound(roots) == roots = <<>>

NoRigData == [ok |-> FALSE, error |-> "", nodes |-> <<>>, roots |-> <<>>]

RECURSIVE traverse_roots(_, _, _)
traverse_roots(roots, F, sel) ==
  IF roots = <<>> THEN F
  ELSE traverse_roots(Tail(roots), traverse(Head(roots), 0, 0, F, sel), sel)

analyze_hierarchy(sel) ==
  IF \E o \in sel : HasNoCollection(o)
  THEN [NoRigData EXCEPT !.error = "ValueError: not assigned to any Collection"]
  ELSE IF NoRootFound(SelectionRoots(sel))
  THEN [NoRigData EXCEPT !.error = "ValueError: Circular dependency or no root object found"]
  ELSE LET F == traverse_roots(SelectionRoots(sel), [nodes |-> <<>>, roots |-> <<>>], sel)
       IN [ok |-> TRUE, error |-> "", nodes |-> F.nodes, roots |-> F.roots]

(***************************************************************************)
(* The armature: bones in creation order, pose data kept with each bone    *)
(***************************************************************************)
NoArmature == [exists |-> FALSE, order |-> <<>>, bones |-> <<>>]

BoneNames(amt) == DOMAIN amt.bones

\* mech_rig_settings defaults of MechRigBoneSettings
DefaultSettings == [use_ik |-> FALSE, ik_chain_length |-> 2]

Axes == {1, 2, 3}

\* a bone as edit_bones.new leaves it, with the default pose data of its pose bone
NewBone ==
  [parent |-> None, head |-> <<0, 0, 0>>, tail |-> <<0, 0, 0>>, roll_axis |-> <<0, 0, 0>>,
   use_deform |-> TRUE, constraints |-> <<>>, mech_rig_settings |-> DefaultSettings,
   lock_ik |-> <<FALSE, FALSE, FALSE>>, use_ik_limit |-> <<FALSE, FALSE, FALSE>>,
   ik_min |-> <<0, 0, 0>>, ik_max |-> <<0, 0, 0>>, props |-> {}]

Digit(k) == SubSeq("123456789", k, k)

\* the host's unique naming: the name itself, else the first free name.00k
UniqueName(base, used) ==
  IF base \notin used THEN base
  ELSE LET k == CHOOSE i \in 1..9 : /\ (base \o ".00" \o Digit(i)) \notin used
                                    /\ \A j \in 1..(i - 1) : (base \o ".00" \o Digit(j)) \in used
       IN base \o ".00" \o Digit(k)

\* a variant that hands back the bone of that name when there is one
edit_bones_new_or_existing(amt, name) ==
  IF name \in BoneNames(amt) THEN [amt |-> amt, name |-> name]
  ELSE [amt |-> [amt EXCEPT !.order = Append(@, name),
                            !.bones = [n \in BoneNames(amt) \cup {name} |->
                                         IF n = name THEN NewBone ELSE amt.bones[n]]],
        name |-> name]

\* amt.edit_bones.new(name): returns the armature and the name the bone got
edit_bones_new(amt, name) ==
  LET real == UniqueName(name, BoneNames(amt))
  IN [amt |-> [amt EXCEPT !.order = Append(@, real),
                          !.bones = [n \in BoneNames(amt) \cup {real} |->
                                       IF n = real THEN NewBone ELSE amt.bones[n]]],
      name |-> real]

RECURSIVE WithoutName(_, _)
WithoutName(seq, name) ==
  IF seq = <<>> THEN <<>>
  ELSE (IF Head(seq) = name THEN <<>> ELSE <<Head(seq)>>) \o WithoutName(Tail(seq), name)

\* amt.edit_bones.remove(bone): its children are handed to its parent, its
\* pose data goes with it
edit_bones_remove(amt, name) ==
  [amt EXCEPT !.order = WithoutName(@, name),
              !.bones = [n \in BoneNames(amt) \ {name} |->
                           IF amt.bones[n].parent = name
                           THEN [amt.bones[n] EXCEPT !.parent = amt.bones[name].parent]
                           ELSE amt.bones[n]]]

\* leaving edit mode drops every zero-length bone
RECURSIVE RemoveZeroLength(_, _)
RemoveZeroLength(amt, names) ==
  IF names = <<>> THEN amt
  ELSE RemoveZeroLength(IF amt.bones[Head(names)].head = amt.bones[Head(names)].tail
                        THEN edit_bones_remove(amt, Head(names)) ELSE amt,
                        Tail(names))

ExitEditMode(amt) == RemoveZeroLength(amt, amt.order)

\* the default name a new constraint of a type gets, unique on its bone
ConstraintTypeName(type) ==
  CASE type = "IK" -> "IK"
    [] type = "LIMIT_ROTATION" -> "Limit Rotation"
    [] type = "DAMPED_TRACK" -> "Damped Track"

NoDriver == [type |-> "", variables |-> <<>>]

ConstraintNames(cons) == {cons[i].name : i \in 1..Len(cons)}

\* pbone.constraints.new(type) with the host's defaults
constraints_new(cons, type) ==
  [type |-> type, name |-> UniqueName(ConstraintTypeName(type), ConstraintNames(cons)),
   subtarget |-> "", chain_count |-> 0, track_axis |-> "", owner_space |-> "WORLD",
   use_limit |-> <<FALSE, FALSE, FALSE>>, min |-> <<0, 0, 0>>, max |-> <<0, 0, 0>>,
   influence |-> 1, driver |-> NoDriver]

(***************************************************************************)
(* Step 3: create_armature                                                 *)
(***************************************************************************)
MinBoneLength == 20

mech_rig_bone_size_scale == 20

HingePrefix == "Hinge_"

\* a variant that does not take the matrix into the origin's frame first
get_mirrored_matrix_world_frame(obj_matrix, origin_matrix) ==
  MatMul(origin_matrix, MatMul(MirrorMat, obj_matrix))

get_mirrored_matrix(obj_matrix, origin_matrix) ==
  LET mat_local == MatMul(Inverted(origin_matrix), obj_matrix)
      mat_local_mirrored == MatMul(MirrorMat, mat_local)
  IN MatMul(origin_matrix, mat_local_mirrored)

\* a variant that forgets to mirror the Right side
calculate_bone_head_unmirrored(node, origin) == Objects[node.origin_obj].matrix_world.t

calculate_bone_head(node, origin) ==
  LET mat == Objects[node.origin_obj].matrix_world
  IN IF node.is_mirrored_side = "R" /\ origin # None
     THEN get_mirrored_matrix(mat, Origins[origin]).t
     ELSE mat.t

\* the axis taken into the origin's frame, its local X negated, and taken back
MirrorAxis(axis, origin_mat) ==
  LET a_local == To3x3Mul(Inverted(origin_mat), axis)
  IN To3x3Mul(origin_mat, <<-a_local[1], a_local[2], a_local[3]>>)

\* the reflection applied to one matrix and one axis: what went in, what
\* the last application got and gave, and how often it was applied
NoProbe ==
  [origin |-> Identity3(<<0, 0, 0>>),
   m_start |-> Identity3(<<0, 0, 0>>), m_last |-> Identity3(<<0, 0, 0>>), m |-> Identity3(<<0, 0, 0>>), m_times |-> 0,
   a_start |-> <<0, 0, 0>>, a_last |-> <<0, 0, 0>>, a |-> <<0, 0, 0>>, a_times |-> 0]

SideAxis(node, origin, axis) ==
  IF node.is_mirrored_side = "R" /\ origin # None THEN MirrorAxis(axis, Origins[origin]) ELSE axis

\* max(obj.dimensions.length * 0.5, 0.2) * context.scene.mech_rig_bone_size_scale
DefaultBoneLength(obj) ==
  (Max(Objects[obj].dimensions_length \div 2, MinBoneLength) * mech_rig_bone_size_scale) \div 100

SideSuffix(node) ==
  IF node.is_mirrored_side = "L" THEN "_L"
  ELSE IF node.is_mirrored_side = "R" THEN "_R" ELSE ""

NodePistonMatch(node) ==
  re_match_piston(RemoveAll(Objects[node.origin_obj].users_collection[1], "_Mirrored"))

NoPair == [Cyl |-> 0, Rod |-> 0]

\* piston_map.get(instance_key, {}).get(ptype), 0 standing for None
PistonGet(piston_map, key, ptype) ==
  IF key \in DOMAIN piston_map THEN piston_map[key][ptype] ELSE 0

RECURSIVE collect_pistons(_, _, _)
collect_pistons(nodes, piston_map, F) ==
  IF nodes = <<>> THEN piston_map
  ELSE LET node == F.nodes[Head(nodes)]
           match == NodePistonMatch(node)
           instance_key == match.pid \o SideSuffix(node)
           old == IF instance_key \in DOMAIN piston_map THEN piston_map[instance_key] ELSE NoPair
           m1 == IF match.ok
                 THEN [k \in DOMAIN piston_map \cup {instance_key} |->
                         IF k = instance_key THEN [old EXCEPT ![match.ptype] = Head(nodes)]
                         ELSE piston_map[k]]
                 ELSE piston_map
       IN collect_pistons(Tail(nodes), collect_pistons(node.children, m1, F), F)

\* a variant that places every bone by the standard rule, pistons included
BonePlacement_standard(node, F, origin, piston_map) ==
  [set |-> TRUE, head |-> calculate_bone_head(node, origin),
   tail |-> VAdd(calculate_bone_head(node, origin),
                 VScale(SideAxis(node, origin, Normalized(Objects[node.origin_obj].matrix_world.z)),
                        DefaultBoneLength(node.origin_obj))),
   roll_axis |-> SideAxis(node, origin, Normalized(Objects[node.origin_obj].matrix_world.x))]

\* head, tail and roll axis of one node's bone; set is FALSE when the code
\* assigns none of them (a piston member without its counterpart)
BonePlacement(node, F, origin, piston_map) ==
  LET obj == node.origin_obj
      mat == Objects[obj].matrix_world
      final_head == calculate_bone_head(node, origin)
      piston_match == NodePistonMatch(node)
      instance_key == piston_match.pid \o SideSuffix(node)
      target_type == IF piston_match.ptype = "Cyl" THEN "Rod" ELSE "Cyl"
      target_node == PistonGet(piston_map, instance_key, target_type)
      z_axis == Normalized(mat.z)
      x_axis == Normalized(mat.x)
      length == DefaultBoneLength(obj)
  IN IF piston_match.ok
     THEN IF target_node # 0
          THEN LET target_head == calculate_bone_head(F.nodes[target_node], origin)
                   vec0 == VSub(target_head, final_head)
                   \* dist < 0.001
                   vec == IF vec0 = <<0, 0, 0>> THEN VScale(z_axis, length) ELSE vec0
               IN [set |-> TRUE, head |-> final_head, tail |-> VAdd(final_head, vec),
                   roll_axis |-> SideAxis(node, origin, z_axis)]
          ELSE [set |-> FALSE, head |-> <<0, 0, 0>>, tail |-> <<0, 0, 0>>, roll_axis |-> <<0, 0, 0>>]
     ELSE [set |-> TRUE, head |-> final_head,
           tail |-> VAdd(final_head, VScale(SideAxis(node, origin, z_axis), length)),
           roll_axis |-> SideAxis(node, origin, x_axis)]

\* the bone a node gets: a bone of its name already in the armature is never
\* looked up (the definition that is called always creates)
BoneForNode(amt, name) == edit_bones_new(amt, name)

\* bone.head, bone.tail, bone.align_roll and bone.parent of a new bone
PlacedBone(bone, place, parent_bone) ==
  [bone EXCEPT !.head = IF place.set THEN place.head ELSE @,
               !.tail = IF place.set THEN place.tail ELSE @,
               !.roll_axis = IF place.set THEN place.roll_axis ELSE @,
               !.parent = IF parent_bone # None THEN parent_bone ELSE @]

\* the bone of one node: created, placed, parented and noted in node_to_bone
NodeBone(made, node_index, place, parent_bone, node_to_bone) ==
  [amt |-> [made.amt EXCEPT !.bones[made.name] = PlacedBone(@, place, parent_bone)],
   node_to_bone |-> Append(node_to_bone, <<node_index, made.name>>)]

\* the name of the bone made last
LastBoneName(S) == S.node_to_bone[Len(S.node_to_bone)][2]

RECURSIVE create_bones_recursive(_, _, _, _, _, _)
RECURSIVE create_child_bones(_, _, _, _, _)
\* create_bones_recursive(node.children, bone), S holding the bone of the node
create_child_bones(node_index, S, F, origin, piston_map) ==
  create_bones_recursive(F.nodes[node_index].children, LastBoneName(S), S, F, origin, piston_map)

create_bones_recursive(nodes, parent_bone, S, F, origin, piston_map) ==
  IF nodes = <<>> THEN S
  ELSE create_bones_recursive(
         Tail(nodes), parent_bone,
         create_child_bones(
           Head(nodes),
           NodeBone(BoneForNode(S.amt, F.nodes[Head(nodes)].name), Head(nodes),
                    BonePlacement(F.nodes[Head(nodes)], F, origin, piston_map),
                    parent_bone, S.node_to_bone),
           F, origin, piston_map),
         F, origin, piston_map)

\* a variant that looks at the representative object's name only
IsHinge_by_object_name(node) == StartsWith(node.origin_obj, HingePrefix)

IsHinge(node) == StartsWith(node.name, HingePrefix) \/ StartsWith(node.origin_obj, HingePrefix)

\* the synthesis rotation limit: X and Z limited, Y free, local space
HingeLimit(cons) ==
  [constraints_new(cons, "LIMIT_ROTATION") EXCEPT !.use_limit = <<TRUE, FALSE, TRUE>>,
                                                   !.owner_space = "LOCAL"]

RECURSIVE apply_hinge_constraints(_, _, _)
apply_hinge_constraints(amt, node_to_bone, F) ==
  IF node_to_bone = <<>> THEN amt
  ELSE LET node == F.nodes[Head(node_to_bone)[1]]
           bone_name == Head(node_to_bone)[2]
           amt1 == IF bone_name \in BoneNames(amt) /\ IsHinge(node)
                   THEN [amt EXCEPT !.bones[bone_name].constraints = Append(@, HingeLimit(@))]
                   ELSE amt
       IN apply_hinge_constraints(amt1, Tail(node_to_bone), F)

\* the pose-mode part of create_armature, S holding the bones made in edit mode
FinishArmature(S, F) == apply_hinge_constraints(ExitEditMode(S.amt), S.node_to_bone, F)

\* the armature to work on: the one handed in, else a new one
ArmatureToEdit(armature_obj) ==
  IF armature_obj.exists THEN armature_obj ELSE [NoArmature EXCEPT !.exists = TRUE]

create_armature(F, origin, armature_obj) ==
  FinishArmature(create_bones_recursive(F.roots, None,
                                        [amt |-> ArmatureToEdit(armature_obj), node_to_bone |-> <<>>],
                                        F, origin, collect_pistons(F.roots, <<>>, F)),
                 F)

(***************************************************************************)
(* Step 4: bind_objects_interactive and the scene objects it changes       *)
(***************************************************************************)
ArmatureName == "MechRig"

RigCollection == "MechRig_Collection"

\* the part of a scene object the rigging operator can change
RestObject(o) ==
  [parent |-> Objects[o].parent, parent_type |-> "OBJECT", parent_bone |-> "",
   matrix_world |-> Objects[o].matrix_world, vertex_groups |-> {}]

\* the scene before any rigging: no collection made by the operator yet
SceneAtRest == [objects |-> [o \in ObjectNames |-> RestObject(o)], collections |-> {}]

\* the nodes of the forest, parents before children
RECURSIVE get_all_nodes(_, _)
get_all_nodes(nodes, F) ==
  IF nodes = <<>> THEN <<>>
  ELSE <<Head(nodes)>> \o get_all_nodes(F.nodes[Head(nodes)].children, F) \o get_all_nodes(Tail(nodes), F)

\* col_objects[col]: the selected objects whose first collection is col
col_objects(col, sel) ==
  {o \in sel : Objects[o].users_collection # <<>> /\ Objects[o].users_collection[1] = col}

\* obj.parent and obj.parent in objs
KeepsLocalParent(scn, obj, objs) == scn.objects[obj].parent # None /\ scn.objects[obj].parent \in objs

AlreadyBound(scn, obj, bone_name) ==
  /\ scn.objects[obj].parent = ArmatureName
  /\ scn.objects[obj].parent_type = "BONE"
  /\ scn.objects[obj].parent_bone = bone_name

\* Left side or centre: the objects of the collection that are to be bound
\* lose their parent and are noted for the bone
BindSource(B, objs, bone_name) ==
  LET todo == {o \in objs : ~KeepsLocalParent(B.scene, o, objs) /\ ~AlreadyBound(B.scene, o, bone_name)}
  IN [B EXCEPT !.scene.objects = [o \in DOMAIN @ |-> IF o \in todo THEN [@[o] EXCEPT !.parent = None] ELSE @[o]],
               !.tasks = @ \cup {<<bone_name, o>> : o \in todo}]

LinkedName(obj) == obj \o "_Linked_R"

\* the world matrix of a linked duplicate: the source's, mirrored
LinkedMatrix(mat, origin) ==
  IF origin # None THEN get_mirrored_matrix(mat, Origins[origin]) ELSE MatMul(MirrorMat, mat)

\* the linked duplicate of obj as the Right side leaves it before parenting
LinkedObject(scn, obj, objs, origin) ==
  [parent |-> IF KeepsLocalParent(scn, obj, objs) THEN LinkedName(scn.objects[obj].parent) ELSE None,
   parent_type |-> "OBJECT", parent_bone |-> "",
   matrix_world |-> LinkedMatrix(scn.objects[obj].matrix_world, origin),
   vertex_groups |-> scn.objects[obj].vertex_groups]

\* Right side: the collection <col>_Linked and a linked duplicate of every
\* object, parented to the duplicate of its local parent or noted for the bone
BindLinked(B, objs, bone_name, col, origin) ==
  [B EXCEPT !.scene.collections = @ \cup {col \o "_Linked"},
            !.scene.objects = [n \in DOMAIN @ \cup {LinkedName(o) : o \in objs} |->
                                 IF \E o \in objs : n = LinkedName(o)
                                 THEN LinkedObject(B.scene, CHOOSE o \in objs : n = LinkedName(o), objs, origin)
                                 ELSE @[n]],
            !.tasks = @ \cup {<<bone_name, LinkedName(o)>> : o \in {x \in objs : ~KeepsLocalParent(B.scene, x, objs)}}]

\* one node of the loop over all_nodes; a (collection, side) key is handled once
bind_node(B, node, sel, origin) ==
  IF <<obj_to_col(node.origin_obj), node.is_mirrored_side>> \in B.processed_cols THEN B
  ELSE IF node.is_mirrored_side # "R"
  THEN BindSource([B EXCEPT !.processed_cols = @ \cup {<<obj_to_col(node.origin_obj), node.is_mirrored_side>>}],
                  col_objects(obj_to_col(node.origin_obj), sel), node.name)
  ELSE BindLinked([B EXCEPT !.processed_cols = @ \cup {<<obj_to_col(node.origin_obj), node.is_mirrored_side>>}],
                  col_objects(obj_to_col(node.origin_obj), sel), node.name,
                  obj_to_col(node.origin_obj), origin)

RECURSIVE bind_nodes(_, _, _, _, _)
bind_nodes(all_nodes, B, F, sel, origin) ==
  IF all_nodes = <<>> THEN B
  ELSE bind_nodes(Tail(all_nodes), bind_node(B, F.nodes[Head(all_nodes)], sel, origin), F, sel, origin)

\* bpy.ops.object.parent_set(type='BONE') for every task whose bone exists
parent_set(B, amt) ==
  [B.scene EXCEPT !.objects =
     [n \in DOMAIN @ |->
        IF \E t \in B.tasks : t[2] = n /\ t[1] \in BoneNames(amt)
        THEN [@[n] EXCEPT !.parent = ArmatureName, !.parent_type = "BONE",
                          !.parent_bone = (CHOOSE t \in B.tasks : t[2] = n)[1]]
        ELSE @[n]]]

bind_objects_interactive(F, amt, origin, sel, scn) ==
  parent_set(bind_nodes(get_all_nodes(F.roots, F), [scene |-> scn, tasks |-> {}, processed_cols |-> {}],
                        F, sel, origin),
             amt)

(***************************************************************************)
(* MECH_RIG_OT_AutoRig.execute: the Build / Update Rig operator            *)
(***************************************************************************)
NoReport == [type |-> "", message |-> "", result |-> ""]

Cancelled(message, F, amt, scn) ==
  [report |-> [type |-> "ERROR", message |-> message, result |-> "CANCELLED"],
   rig_data |-> F, armature |-> amt, scene |-> scn]

Finished(F, amt, scn) ==
  [report |-> [type |-> "INFO", message |-> "Rig Updated! (Interactive Mode)", result |-> "FINISHED"],
   rig_data |-> F, armature |-> amt, scene |-> scn]

\* a new armature is moved to the collection MechRig_Collection
WithRigCollection(scn, armature_obj) ==
  IF armature_obj.exists THEN scn ELSE [scn EXCEPT !.collections = @ \cup {RigCollection}]

\* steps 2 and 3 of the operator on the armature just made or updated
BindRig(F, amt, origin, sel, scn) == Finished(F, amt, bind_objects_interactive(F, amt, origin, sel, scn))

\* the try block after the analysis: a ValueError of the analysis is caught
RigAnalyzed(F, origin, existing_armature, sel, scn) ==
  IF ~F.ok THEN Cancelled("Rigging Failed: " \o F.error, F, existing_armature, scn)
  ELSE BindRig(F, create_armature(F, origin, existing_armature), origin, sel,
               WithRigCollection(scn, existing_armature))

\* sel: the selected objects that are no armature; existing_armature: the
\* armature in the selection, NoArmature when there is none
AutoRig_execute(sel, origin, existing_armature, scn) ==
  IF sel = {} /\ ~existing_armature.exists
  THEN Cancelled("No objects selected.", NoRigData, existing_armature, scn)
  ELSE IF sel # {} /\ ~validate_selection(sel, origin)
  THEN Cancelled("Validation Failed. Run 'Validate Hierarchy' for details.", NoRigData, existing_armature, scn)
  ELSE IF sel = {}
  THEN Cancelled("Please select the objects to rig (along with the Armature if updating).",
                 NoRigData, existing_armature, scn)
  ELSE RigAnalyzed(analyze_hierarchy(sel), origin, existing_armature, sel, scn)

(***************************************************************************)
(* Step 5: apply_controls (colours, bone collections and widget shapes     *)
(* carry no rig structure and are left out)                                *)
(***************************************************************************)
IkSuffix == "_IK"

IkFkProp == "IK_FK"

IkLockTolerance == 2

HasConstraintNamed(cons, name) == \E i \in 1..Len(cons) : cons[i].name = name

\* the name of the counterpart bone: the other type, the same suffix
PistonTargetName(name, match) ==
  "Piston_" \o match.pid \o "_" \o (IF match.ptype = "Cyl" THEN "Rod" ELSE "Cyl")
            \o SubSeq(name, match.end + 1, Len(name))

\* 1. Look At (Damped Track), added when no constraint has its name
PistonTrack(cons, target_name) ==
  IF HasConstraintNamed(cons, "Piston_Track") THEN cons
  ELSE Append(cons, [constraints_new(cons, "DAMPED_TRACK") EXCEPT
                       !.name = "Piston_Track", !.subtarget = target_name, !.track_axis = "TRACK_Y"])

\* 2. Limit Rotation: X and Y locked at 0, Z free, added when no constraint has its name
PistonLimit(cons) ==
  IF HasConstraintNamed(cons, "Piston_Limit") THEN cons
  ELSE Append(cons, [constraints_new(cons, "LIMIT_ROTATION") EXCEPT
                       !.name = "Piston_Limit", !.owner_space = "LOCAL",
                       !.use_limit = <<TRUE, TRUE, FALSE>>, !.min = <<0, 0, 0>>, !.max = <<0, 0, 0>>])

\* apply_piston_constraints once the name is matched against the pattern
PistonConstraints(amt, name, match) ==
  IF ~Contains(name, "Piston_") \/ ~match.ok \/ PistonTargetName(name, match) \notin BoneNames(amt)
  THEN [amt |-> amt, is_piston |-> FALSE]
  ELSE [amt |-> [amt EXCEPT !.bones[name].constraints =
                               PistonLimit(PistonTrack(@, PistonTargetName(name, match)))],
        is_piston |-> TRUE]

\* apply_piston_constraints: adds the track and the limit constraint when
\* absent; is_piston tells whether the bone was handled as a piston
apply_piston_constraints(amt, name) == PistonConstraints(amt, name, re_search_piston(name))

\* a variant that never finds the IK constraint a bone already has
FirstIK_none(cons) == 0

\* index of the first IK constraint of a list, 0 when there is none
FirstIK(cons) ==
  IF \E i \in 1..Len(cons) : cons[i].type = "IK"
  THEN CHOOSE i \in 1..Len(cons) : cons[i].type = "IK" /\ \A j \in 1..(i - 1) : cons[j].type # "IK"
  ELSE 0

\* the records copied from the rotation limits of one bone
RECURSIVE LockDataOf(_, _)
LockDataOf(bone_name, cons) ==
  IF cons = <<>> THEN <<>>
  ELSE (IF Head(cons).type = "LIMIT_ROTATION"
        THEN <<[bone_name |-> bone_name, use_limit |-> Head(cons).use_limit,
                min |-> Head(cons).min, max |-> Head(cons).max]>>
        ELSE <<>>) \o LockDataOf(bone_name, Tail(cons))

\* the walk up the parents: at most steps bones, the owner first
RECURSIVE CollectLocks(_, _, _)
CollectLocks(amt, curr_bone, steps) ==
  IF steps = 0 THEN <<>>
  ELSE LockDataOf(curr_bone, amt.bones[curr_bone].constraints)
       \o (IF amt.bones[curr_bone].parent # None
           THEN CollectLocks(amt, amt.bones[curr_bone].parent, steps - 1)
           ELSE <<>>)

RECURSIVE IkConstraintNames(_, _)
IkConstraintNames(bone_name, cons) ==
  IF cons = <<>> THEN <<>>
  ELSE (IF Head(cons).type = "IK" THEN <<<<bone_name, Head(cons).name>>>> ELSE <<>>)
       \o IkConstraintNames(bone_name, Tail(cons))

\* number of bones from a bone up to its root, the bone included
RECURSIVE BonesToRoot(_, _)
BonesToRoot(amt, name) ==
  IF amt.bones[name].parent = None THEN 1 ELSE 1 + BonesToRoot(amt, amt.bones[name].parent)

\* a variant that clamps the request to the bones available
TaskChainLength_clamped(amt, name) ==
  IF amt.bones[name].mech_rig_settings.ik_chain_length > BonesToRoot(amt, name)
  THEN BonesToRoot(amt, name)
  ELSE amt.bones[name].mech_rig_settings.ik_chain_length

\* the chain length a new IK constraint is asked for
TaskChainLength(amt, name) == amt.bones[name].mech_rig_settings.ik_chain_length

NoPlan == [amt |-> NoArmature, ik_tasks |-> <<>>, cleanup_ik_bones |-> <<>>, cleanup_ik_constraints |-> <<>>,
           update_ik_locks |-> <<>>]

\* a variant that leaves an IK constraint already there as it is
IkRequested_length_kept(P, name, ik) ==
  [P EXCEPT
     !.ik_tasks = IF ik # 0 THEN @
                  ELSE Append(@, [bone_name |-> name, ik_target_name |-> name \o IkSuffix,
                                  chain_length |-> TaskChainLength(P.amt, name)]),
     !.update_ik_locks = @ \o CollectLocks(P.amt, name, P.amt.bones[name].mech_rig_settings.ik_chain_length)]

\* use_ik set: the chain length of an IK constraint already there is
\* updated, else a task is noted; the rotation limits up the chain are noted
IkRequested(P, name, ik) ==
  [P EXCEPT
     !.amt = IF ik # 0
             THEN [P.amt EXCEPT !.bones[name].constraints[ik].chain_count =
                                   P.amt.bones[name].mech_rig_settings.ik_chain_length]
             ELSE P.amt,
     !.ik_tasks = IF ik # 0 THEN @
                  ELSE Append(@, [bone_name |-> name, ik_target_name |-> name \o IkSuffix,
                                  chain_length |-> TaskChainLength(P.amt, name)]),
     !.update_ik_locks = @ \o CollectLocks(P.amt, name, P.amt.bones[name].mech_rig_settings.ik_chain_length)]

\* use_ik not set: the bone's IK constraints and its target bone are marked
IkWithdrawn(P, name) ==
  [P EXCEPT
     !.cleanup_ik_constraints = @ \o IkConstraintNames(name, P.amt.bones[name].constraints),
     !.cleanup_ik_bones = IF (name \o IkSuffix) \in BoneNames(P.amt) THEN Append(@, name \o IkSuffix) ELSE @]

\* the IK logic of a bone that is neither an IK bone nor a piston
IkLogic(P, name) ==
  IF P.amt.bones[name].mech_rig_settings.use_ik
  THEN IkRequested(P, name, FirstIK(P.amt.bones[name].constraints))
  ELSE IkWithdrawn(P, name)

\* a bone after the piston logic: a piston skips the IK logic
AfterPistonLogic(P, name, piston) ==
  IF piston.is_piston THEN [P EXCEPT !.amt = piston.amt] ELSE IkLogic(P, name)

\* one pose bone of the first pass
Pass1Bone(P, name) ==
  IF EndsWith(name, IkSuffix) THEN P
  ELSE AfterPistonLogic(P, name, apply_piston_constraints(P.amt, name))

RECURSIVE Pass1(_, _)
Pass1(P, names) ==
  IF names = <<>> THEN P ELSE Pass1(Pass1Bone(P, Head(names)), Tail(names))

RECURSIVE CleanupBones(_, _)
CleanupBones(amt, names) ==
  IF names = <<>> THEN amt
  ELSE CleanupBones(IF Head(names) \in BoneNames(amt) THEN edit_bones_remove(amt, Head(names)) ELSE amt,
                    Tail(names))

\* length of an axis-aligned vector
VLength(v) == Abs(v[1]) + Abs(v[2]) + Abs(v[3])

\* a variant that puts the target at the owner's head
IkTargetBone_at_head(bone) ==
  [NewBone EXCEPT !.head = bone.head, !.tail = bone.tail, !.parent = bone.parent, !.use_deform = FALSE]

\* the IK target bone of an owner: head at the owner's tail, pointing the
\* owner's way at half its length, parented to the owner's parent
IkTargetBone(bone) ==
  [NewBone EXCEPT
     !.head = bone.tail,
     !.tail = VAdd(bone.tail, VScale(Normalized(VSub(bone.tail, bone.head)),
                                     VLength(VSub(bone.tail, bone.head)) \div 2)),
     !.parent = bone.parent,
     !.use_deform = FALSE]

RECURSIVE CreateIkBones(_, _)
CreateIkBones(amt, tasks) ==
  IF tasks = <<>> THEN amt
  ELSE LET task == Head(tasks)
           made == edit_bones_new(amt, task.ik_target_name)
           amt1 == IF task.bone_name \in BoneNames(amt) /\ task.ik_target_name \notin BoneNames(amt)
                   THEN [made.amt EXCEPT !.bones[made.name] = IkTargetBone(amt.bones[task.bone_name])]
                   ELSE amt
       IN CreateIkBones(amt1, Tail(tasks))

\* a variant that forgets to remove the bones marked for clean-up
Pass2_no_cleanup(P) ==
  IF P.ik_tasks # <<>> \/ P.cleanup_ik_bones # <<>>
  THEN [P EXCEPT !.amt = ExitEditMode(CreateIkBones(P.amt, P.ik_tasks))]
  ELSE P

\* second pass: edit mode is entered only when there is a bone to add or remove
Pass2(P) ==
  IF P.ik_tasks # <<>> \/ P.cleanup_ik_bones # <<>>
  THEN [P EXCEPT !.amt = ExitEditMode(CreateIkBones(CleanupBones(P.amt, P.cleanup_ik_bones), P.ik_tasks))]
  ELSE P

RECURSIVE WithoutIkNamed(_, _)
WithoutIkNamed(cons, name) ==
  IF cons = <<>> THEN <<>>
  ELSE (IF Head(cons).type = "IK" /\ Head(cons).name = name THEN <<>> ELSE <<Head(cons)>>)
       \o WithoutIkNamed(Tail(cons), name)

RECURSIVE CleanupConstraints(_, _)
CleanupConstraints(amt, pairs) ==
  IF pairs = <<>> THEN amt
  ELSE LET bone_name == Head(pairs)[1]
           amt1 == IF bone_name \in BoneNames(amt)
                   THEN [amt EXCEPT !.bones[bone_name].constraints = WithoutIkNamed(@, Head(pairs)[2])]
                   ELSE amt
       IN CleanupConstraints(amt1, Tail(pairs))

DataPath(target_name, prop_name) == "pose.bones[\"" \o target_name \o "\"][\"" \o prop_name \o "\"]"

\* the driver of the constraint's influence
IkDriver(target_name) ==
  [type |-> "AVERAGE",
   variables |-> <<[name |-> "var", type |-> "SINGLE_PROP", data_path |-> DataPath(target_name, IkFkProp)]>>]

HasProp(bone, prop_name) == \E q \in bone.props : q.name = prop_name

\* a variant that leaves the property with the host's default range
IkFkProperty_unranged == [name |-> IkFkProp, value |-> 100, min |-> -1000000, max |-> 1000000]

\* ik_pbone["IK_FK"] = 1.0 with the range 0.0 .. 1.0
IkFkProperty == [name |-> IkFkProp, value |-> 100, min |-> 0, max |-> 100]

\* a variant that aims the constraint at the owner itself
IkConstraint_self_target(cons, task) ==
  [constraints_new(cons, "IK") EXCEPT !.subtarget = task.bone_name,
                                      !.chain_count = task.chain_length,
                                      !.driver = IkDriver(task.ik_target_name)]

IkConstraint(cons, task) ==
  [constraints_new(cons, "IK") EXCEPT !.subtarget = task.ik_target_name,
                                      !.chain_count = task.chain_length,
                                      !.driver = IkDriver(task.ik_target_name)]

RECURSIVE SetupIk(_, _)
SetupIk(amt, tasks) ==
  IF tasks = <<>> THEN amt
  ELSE LET task == Head(tasks)
           amt1 == IF task.bone_name \in BoneNames(amt) /\ task.ik_target_name \in BoneNames(amt)
                   THEN LET a == [amt EXCEPT !.bones[task.bone_name].constraints =
                                                Append(@, IkConstraint(@, task))]
                        IN IF HasProp(a.bones[task.ik_target_name], IkFkProp) THEN a
                           ELSE [a EXCEPT !.bones[task.ik_target_name].props = @ \cup {IkFkProperty}]
                   ELSE amt
       IN SetupIk(amt1, Tail(tasks))

IsCollapsed(lo, hi) == Abs(hi - lo) < IkLockTolerance

\* one axis of one lock record
SyncAxis(pbone, data, a) ==
  IF data.use_limit[a]
  THEN IF IsCollapsed(data.min[a], data.max[a])
       THEN [pbone EXCEPT !.lock_ik[a] = TRUE]
       ELSE [pbone EXCEPT !.use_ik_limit[a] = TRUE, !.ik_min[a] = data.min[a], !.ik_max[a] = data.max[a]]
  ELSE [pbone EXCEPT !.lock_ik[a] = FALSE, !.use_ik_limit[a] = FALSE]

RECURSIVE UpdateIkLocks(_, _)
UpdateIkLocks(amt, locks) ==
  IF locks = <<>> THEN amt
  ELSE LET data == Head(locks)
           amt1 == IF data.bone_name \in BoneNames(amt)
                   THEN [amt EXCEPT !.bones[data.bone_name] = SyncAxis(SyncAxis(SyncAxis(@, data, 1), data, 2), data, 3)]
                   ELSE amt
       IN UpdateIkLocks(amt1, Tail(locks))

\* third pass: constraint clean-up, new IK constraints, IK locks
Pass3(P) ==
  UpdateIkLocks(SetupIk(CleanupConstraints(P.amt, P.cleanup_ik_constraints), P.ik_tasks), P.update_ik_locks)

\* what the first pass collects (and the constraints it already touched)
Plan(amt) == Pass1([NoPlan EXCEPT !.amt = amt], amt.order)

apply_controls(amt) == Pass3(Pass2(Plan(amt)))

(***************************************************************************)
(* apply_controls in the steps of its three passes. A handle of a pose     *)
(* bone or constraint is good for the epoch it was obtained in; entering   *)
(* edit mode opens a new epoch.                                            *)
(***************************************************************************)
\* pc: where the run stands; todo: the pose bones the first pass has still
\* to visit; plan: what the first pass collected, with the armature as it
\* is now; handles: the epoch the handles of the last step were obtained
\* in; edit_entries: how often this run entered edit mode
NoRun ==
  [pc |-> "idle", todo |-> <<>>, plan |-> NoPlan, epoch |-> 0, handles |-> 0, edit_entries |-> 0, runs |-> 0]

\* bpy.ops.object.mode_set(mode='POSE') and the empty lists of the first pass
StartRun(R, amt) ==
  [R EXCEPT !.pc = "pass1", !.todo = amt.order, !.plan = [NoPlan EXCEPT !.amt = amt],
            !.epoch = 0, !.handles = 0, !.edit_entries = 0, !.runs = @ + 1]

\* one turn of  for pbone in armature.pose.bones
Pass1Step(R) ==
  [R EXCEPT !.plan = Pass1Bone(@, Head(R.todo)), !.todo = Tail(@), !.handles = R.epoch]

\* needs_edit_mode = bool(ik_tasks) or bool(cleanup_ik_bones)
needs_edit_mode(P) == P.ik_tasks # <<>> \/ P.cleanup_ik_bones # <<>>

\* the second pass: edit mode entered, bones removed and created by handles
\* of amt.edit_bones obtained there, or skipped
Pass2Step(R) ==
  IF needs_edit_mode(R.plan)
  THEN [R EXCEPT !.pc = "pass3", !.plan = Pass2(@), !.epoch = @ + 1, !.handles = R.epoch + 1,
                 !.edit_entries = @ + 1]
  ELSE [R EXCEPT !.pc = "pass3"]

\* a variant that keeps the handle the first pass had
pose_bones_get_stale(R) == 0

\* armature.pose.bones.get(name): a handle obtained now
pose_bones_get(R) == R.epoch

\* 1. Cleanup Constraints
CleanupStep(R) ==
  [R EXCEPT !.pc = "setup", !.handles = pose_bones_get(R),
            !.plan.amt = CleanupConstraints(@, R.plan.cleanup_ik_constraints)]

\* 2. Apply/Setup New IK
SetupStep(R) ==
  [R EXCEPT !.pc = "locks", !.handles = pose_bones_get(R), !.plan.amt = SetupIk(@, R.plan.ik_tasks)]

\* 3. Update IK Locks, the end of the run
LocksStep(R) ==
  [R EXCEPT !.pc = "idle", !.handles = pose_bones_get(R), !.plan.amt = UpdateIkLocks(@, R.plan.update_ik_locks)]

(***************************************************************************)
(* MECH_RIG_OT_AddControls.execute, and both operators on a host whose     *)
(* operator calls can raise (mode_set refusing the context)                *)
(***************************************************************************)
HostError == "context is incorrect"

\* the stages of the Build / Update Rig operator the host can raise in
AutoRigFaults == {"none", "analysis", "synthesis", "binding"}

\* the mode switches of apply_controls the host can raise in
ControlFaults == {"none", "pass1", "pass2", "pass3"}

\* a variant whose handler lets the exception go on to the host
RiggingFailed_reraise(e, F, amt, scn) ==
  [report |-> [type |-> "", message |-> e, result |-> "RAISED"], rig_data |-> F, armature |-> amt, scene |-> scn]

\* except Exception as e: of the Build / Update Rig operator
RiggingFailed(e, F, amt, scn) == Cancelled("Rigging Failed: " \o e, F, amt, scn)

\* the run of an operator and the stage an exception was raised in, "" for none
Outcome(raised, result) == [raised |-> raised, run |-> result]

\* the try block once the analysis has returned its forest
RaisingAfterAnalysis(F, fault, origin, existing_armature, sel, scn) ==
  IF fault = "synthesis" THEN Outcome(fault, RiggingFailed(HostError, F, existing_armature, scn))
  ELSE IF fault = "binding"
  THEN Outcome(fault, RiggingFailed(HostError, F, create_armature(F, origin, existing_armature),
                                    WithRigCollection(scn, existing_armature)))
  ELSE Outcome("", RigAnalyzed(F, origin, existing_armature, sel, scn))

\* the try block from the analysis on: a ValueError of the analysis itself
\* or the host raising in the stage named by fault
RaisingInTry(F, fault, origin, existing_armature, sel, scn) ==
  IF fault = "analysis" THEN Outcome(fault, RiggingFailed(HostError, NoRigData, existing_armature, scn))
  ELSE IF ~F.ok THEN Outcome("analysis", RiggingFailed(F.error, F, existing_armature, scn))
  ELSE RaisingAfterAnalysis(F, fault, origin, existing_armature, sel, scn)

\* MECH_RIG_OT_AutoRig.execute with the host raising in the stage fault
AutoRig_execute_raising(sel, origin, existing_armature, scn, fault) ==
  IF sel = {} \/ ~validate_selection(sel, origin)
  THEN Outcome("", AutoRig_execute(sel, origin, existing_armature, scn))
  ELSE RaisingInTry(analyze_hierarchy(sel), fault, origin, existing_armature, sel, scn)

ControlsCancelled(message, amt) ==
  [report |-> [type |-> "ERROR", message |-> message, result |-> "CANCELLED"], armature |-> amt]

ControlsFinished(amt) ==
  [report |-> [type |-> "INFO", message |-> "Controls Applied!", result |-> "FINISHED"], armature |-> amt]

\* a variant whose handler lets the exception go on to the host
ControlsFailed_reraise(e, amt) ==
  [report |-> [type |-> "", message |-> e, result |-> "RAISED"], armature |-> amt]

\* except Exception as e: of the Apply Controls operator
ControlsFailed(e, amt) == ControlsCancelled("Control Application Failed: " \o e, amt)

\* apply_controls from the second pass on, P being what the first collected
RaisingAfterPass1(P, fault) ==
  IF fault = "pass2" /\ (P.ik_tasks # <<>> \/ P.cleanup_ik_bones # <<>>)
  THEN Outcome(fault, ControlsFailed(HostError, P.amt))
  ELSE IF fault = "pass3" THEN Outcome(fault, ControlsFailed(HostError, Pass2(P).amt))
  ELSE Outcome("", ControlsFinished(Pass3(Pass2(P))))

\* MECH_RIG_OT_AddControls.execute on the active object, with the host
\* raising at the mode switch that opens the pass fault
AddControls_execute(active_object, fault) ==
  IF ~active_object.exists THEN Outcome("", ControlsCancelled("Please select the generated Armature.", active_object))
  ELSE IF fault = "pass1" THEN Outcome(fault, ControlsFailed(HostError, active_object))
  ELSE RaisingAfterPass1(Plan(active_object), fault)

(***************************************************************************)
(* Selection sync between the bone list of the panel and the 3D view       *)
(***************************************************************************)
\* flag is _is_updating_selection; stack holds the handler invocations in
\* progress, the innermost last; active is obj.data.bones.active, select the
\* bones with bone.select set, index is scene.mech_rig_active_bone_index,
\* mode the mode of the active armature object
NoUi ==
  [flag |-> FALSE, stack |-> <<>>, active |-> None, select |-> {}, index |-> 0,
   mode |-> "OBJECT", raised |-> FALSE, guarded |-> FALSE]

UiModes == {"OBJECT", "POSE"}

Frame(handler) == [handler |-> handler, pc |-> "enter"]

Top(U) == U.stack[Len(U.stack)]

Return(U) == [U EXCEPT !.stack = SubSeq(@, 1, Len(@) - 1)]

Goto(U, pc) == [U EXCEPT !.stack[Len(U.stack)].pc = pc]

Invoke(U, handler) == [U EXCEPT !.stack = Append(@, Frame(handler))]

\* enumerate(obj.pose.bones): the index of the pose bone, -1 if not found
found_index(amt, name) ==
  IF name \in BoneNames(amt) THEN (CHOOSE i \in 1..Len(amt.order) : amt.order[i] = name) - 1 ELSE -1

\* the conditions under which update_bone_index gets to its try block
update_bone_index_writes(U, amt) ==
  /\ amt.exists /\ U.mode = "POSE"
  /\ 0 <= U.index /\ U.index < Len(amt.order)

\* the conditions under which sync_selection_to_ui gets to its try block
sync_selection_writes(U, amt) ==
  /\ amt.exists /\ U.mode = "POSE"
  /\ U.active # None
  /\ found_index(amt, U.active) # -1
  /\ U.index # found_index(amt, U.active)

\* a variant of the guard that lets every invocation through
is_updating_selection_ignored(U) == FALSE

\* what both handlers test first
is_updating_selection(U) == U.flag

\* a handler from its first line to the line that sets the flag, or to its return
handler_enter(U, amt) ==
  IF is_updating_selection(U) THEN [Return(U) EXCEPT !.guarded = TRUE]
  ELSE IF \/ Top(U).handler = "update_bone_index" /\ update_bone_index_writes(U, amt)
          \/ Top(U).handler = "sync_selection_to_ui" /\ sync_selection_writes(U, amt)
       THEN Goto([U EXCEPT !.flag = TRUE], "write")
       ELSE Return(U)

\* obj.data.bones.active = bone; the host may run its depsgraph handlers
\* before the assignment returns
update_bone_index_write(U, amt, nested) ==
  LET U1 == Goto([U EXCEPT !.active = amt.order[U.index + 1]], "select")
  IN IF nested THEN Invoke(U1, "sync_selection_to_ui") ELSE U1

\* bone.select = True
update_bone_index_select(U, amt) ==
  Goto([U EXCEPT !.select = @ \cup {amt.order[U.index + 1]}], "finally")

\* scene.mech_rig_active_bone_index = found_index; the assignment runs the
\* update callback of the property
sync_selection_write(U, amt) ==
  Invoke(Goto([U EXCEPT !.index = found_index(amt, U.active)], "finally"), "update_bone_index")

\* the statement in the try block raises
handler_raise(U) == Goto([U EXCEPT !.raised = TRUE], "finally")

\* the finally block, then the return or the exception leaving the handler
handler_finally(U) == Return([U EXCEPT !.flag = FALSE])

(***************************************************************************)
(* State machine                                                           *)
(***************************************************************************)
\* selections offered to the rig life cycle
Scenarios ==
  { {"BodyMesh", "ArmMesh", "Hinge_Elbow"},
    {"BodyMesh", "Hinge_Cyl", "RodMesh", "ClawMesh"},
    {"Loose"} }

ChainLengths == {1, 2, 3}

\* the axes whose limits the user edits (the code treats the three alike)
EditAxes == {1, 2}

\* what a user sets on one axis of a rotation limit: use flag, min, max
LimitPresets == {<<FALSE, 0, 0>>, <<TRUE, 0, 1>>, <<TRUE, -900, 900>>}

Init ==
  /\ selected = {}
  /\ symmetric_origin = "Origin"
  /\ rig_data = NoRigData
  /\ armature = NoArmature
  /\ scene = SceneAtRest
  /\ report = NoReport
  /\ prev = NoArmature
  /\ lastOp = "init"
  /\ builds = 0
  /\ edits = 0
  /\ probe = NoProbe
  /\ run = NoRun
  /\ ui = NoUi

\* what one run of the rigging operator leaves behind
AutoRigStep(r) ==
  /\ rig_data' = r.rig_data
  /\ prev' = armature
  /\ armature' = r.armature
  /\ scene' = r.scene
  /\ report' = r.report

\* the rigging operator on a selection without an armature: validation,
\* analysis, synthesis of a new armature (armature_obj = None) and binding
BuildRig(sel) ==
  /\ ~armature.exists
  /\ selected' = sel
  /\ AutoRigStep(AutoRig_execute(sel, symmetric_origin, armature, scene))
  /\ lastOp' = "build"
  /\ UNCHANGED <<run, ui, probe, symmetric_origin, builds, edits>>

\* the bone of the other side by the name's suffix, None when there is none
MirrorName(name) ==
  LET stem == SubSeq(name, 1, Len(name) - 2)
  IN IF EndsWith(name, "_L") THEN stem \o "_R"
     ELSE IF EndsWith(name, ".L") THEN stem \o ".R"
     ELSE IF EndsWith(name, "_R") THEN stem \o "_L"
     ELSE IF EndsWith(name, ".R") THEN stem \o ".L"
     ELSE None

\* update_use_ik with the edited bone the only selected one: it acts only
\* when that bone is the active pose bone
update_use_ik(amt, b, active) ==
  LET new_val == amt.bones[b].mech_rig_settings.use_ik
      m == MirrorName(b)
  IN IF active /\ m # None /\ m \in BoneNames(amt)
     THEN [amt EXCEPT !.bones[m].mech_rig_settings.use_ik = new_val,
                      !.bones[m].mech_rig_settings.ik_chain_length =
                         IF new_val THEN amt.bones[b].mech_rig_settings.ik_chain_length ELSE @]
     ELSE amt

update_ik_chain_length(amt, b, active) ==
  LET new_val == amt.bones[b].mech_rig_settings.ik_chain_length
      m == MirrorName(b)
  IN IF active /\ m # None /\ m \in BoneNames(amt)
     THEN [amt EXCEPT !.bones[m].mech_rig_settings.ik_chain_length = new_val]
     ELSE amt

\* pbone.mech_rig_settings.use_ik = v, from the panel (active) or a script
SetUseIk(b, v, active) ==
  /\ edits < MaxEdits
  /\ b \in BoneNames(armature)
  /\ armature.bones[b].mech_rig_settings.use_ik # v
  /\ armature' = update_use_ik([armature EXCEPT !.bones[b].mech_rig_settings.use_ik = v], b, active)
  /\ prev' = NoArmature
  /\ edits' = edits + 1
  /\ lastOp' = "edit"
  /\ UNCHANGED <<run, ui, probe, selected, symmetric_origin, rig_data, scene, report, builds>>

\* pbone.mech_rig_settings.ik_chain_length = n, from the panel or a script
SetChainLength(b, n, active) ==
  /\ edits < MaxEdits
  /\ b \in BoneNames(armature)
  /\ armature.bones[b].mech_rig_settings.ik_chain_length # n
  /\ armature' = update_ik_chain_length([armature EXCEPT !.bones[b].mech_rig_settings.ik_chain_length = n],
                                        b, active)
  /\ prev' = NoArmature
  /\ edits' = edits + 1
  /\ lastOp' = "edit"
  /\ UNCHANGED <<run, ui, probe, selected, symmetric_origin, rig_data, scene, report, builds>>

\* the user edits one axis of a rotation limit the rig carries
EditLimit(b, i, a, preset) ==
  /\ edits < MaxEdits
  /\ b \in BoneNames(armature)
  /\ i \in 1..Len(armature.bones[b].constraints)
  /\ armature.bones[b].constraints[i].type = "LIMIT_ROTATION"
  /\ LET c == armature.bones[b].constraints[i]
     IN /\ <<c.use_limit[a], c.min[a], c.max[a]>> # preset
        /\ armature' = [armature EXCEPT !.bones[b].constraints[i] =
                          [c EXCEPT !.use_limit[a] = preset[1], !.min[a] = preset[2], !.max[a] = preset[3]]]
  /\ prev' = NoArmature
  /\ edits' = edits + 1
  /\ lastOp' = "edit"
  /\ UNCHANGED <<run, ui, probe, selected, symmetric_origin, rig_data, scene, report, builds>>

ApplyControls ==
  /\ armature.exists
  /\ prev' = armature
  /\ armature' = apply_controls(armature)
  /\ lastOp' = "apply"
  /\ UNCHANGED <<run, ui, probe, selected, symmetric_origin, rig_data, scene, report, builds, edits>>

Next ==
  \/ \E sel \in Scenarios : BuildRig(sel)
  \/ \E b \in BoneNames(armature), v \in BOOLEAN, active \in BOOLEAN : SetUseIk(b, v, active)
  \/ \E b \in BoneNames(armature), n \in ChainLengths, active \in BOOLEAN : SetChainLength(b, n, active)
  \/ \E b \in BoneNames(armature), i \in 1..3, a \in EditAxes, preset \in LimitPresets : EditLimit(b, i, a, preset)
  \/ ApplyControls

Spec == Init /\ [][Next]_vars

(***************************************************************************)
(* The analysis and synthesis functions on every selection of the scene    *)
(***************************************************************************)
InitSynth ==
  /\ selected \in SUBSET SynthObjects
  /\ symmetric_origin \in OriginNames \cup {None}
  /\ rig_data = NoRigData
  /\ armature = NoArmature
  /\ scene = SceneAtRest
  /\ report = NoReport
  /\ prev = NoArmature
  /\ lastOp = "init"
  /\ builds = 0
  /\ edits = 0
  /\ probe = NoProbe
  /\ run = NoRun
  /\ ui = NoUi

Analyze ==
  /\ lastOp = "init"
  /\ rig_data' = analyze_hierarchy(selected)
  /\ lastOp' = "analyze"
  /\ UNCHANGED <<run, ui, probe, selected, symmetric_origin, armature, scene, report, prev, builds, edits>>

Synthesize ==
  /\ rig_data.ok
  /\ builds < MaxBuilds
  /\ prev' = armature
  /\ armature' = create_armature(rig_data, symmetric_origin, armature)
  /\ builds' = builds + 1
  /\ lastOp' = "synth"
  /\ UNCHANGED <<run, ui, probe, selected, symmetric_origin, rig_data, scene, report, edits>>

NextSynth == Analyze \/ Synthesize

SpecSynth == InitSynth /\ [][NextSynth]_vars

(***************************************************************************)
(* The analysis on every selection of the groups with several objects of   *)
(* one collection                                                          *)
(***************************************************************************)
InitPivot ==
  /\ selected \in SUBSET PivotObjects
  /\ symmetric_origin \in OriginNames \cup {None}
  /\ rig_data = NoRigData
  /\ armature = NoArmature
  /\ scene = SceneAtRest
  /\ report = NoReport
  /\ prev = NoArmature
  /\ lastOp = "init"
  /\ builds = 0
  /\ edits = 0
  /\ probe = NoProbe
  /\ run = NoRun
  /\ ui = NoUi

SpecPivot == InitPivot /\ [][Analyze]_vars

(***************************************************************************)
(* The Build / Update Rig operator run repeatedly: on new objects, with    *)
(* the armature of the earlier runs in the selection                       *)
(***************************************************************************)
\* selections offered to the operator
OpSelections ==
  { {}, {"BodyMesh"}, {"ArmMesh"}, {"BodyMesh", "ArmMesh", "Hinge_Elbow"},
    {"Hinge_Cyl", "RodMesh", "ClawMesh"}, {"Hinge_Cyl", "ClawMesh"}, {"RodMesh"},
    {"Loose"}, {"PinMesh", "Loose"}, {"SideCyl", "RodMesh"}, {"SideCyl", "SideRod"},
    {"PinMesh"}, {"ClawMesh", "Bolt"} }

InitRig ==
  /\ selected = {}
  /\ symmetric_origin = None
  /\ rig_data = NoRigData
  /\ armature = NoArmature
  /\ scene = SceneAtRest
  /\ report = NoReport
  /\ prev = NoArmature
  /\ lastOp = "init"
  /\ builds = 0
  /\ edits = 0
  /\ probe = NoProbe
  /\ run = NoRun
  /\ ui = NoUi

\* the user picks, changes or clears the Symmetric Origin in the panel
SetOrigin(o) ==
  /\ symmetric_origin # o
  /\ symmetric_origin' = o
  /\ lastOp' = "origin"
  /\ UNCHANGED <<run, ui, probe, selected, rig_data, armature, scene, report, prev, builds, edits>>

\* the objects of sel are as the scene holds them at rest: not bound yet
Unbound(sel) == \A o \in sel : scene.objects[o] = RestObject(o)

\* the operator on objects not bound yet, the armature of earlier runs
\* being part of the selection
AutoRig(sel) ==
  /\ builds < MaxBuilds
  /\ Unbound(sel)
  /\ selected' = sel
  /\ AutoRigStep(AutoRig_execute(sel, symmetric_origin, armature, scene))
  /\ builds' = builds + 1
  /\ lastOp' = "rig"
  /\ UNCHANGED <<run, ui, probe, symmetric_origin, edits>>

NextRig ==
  \/ \E o \in OriginNames \cup {None} : SetOrigin(o)
  \/ \E sel \in OpSelections : AutoRig(sel)

SpecRig == InitRig /\ [][NextRig]_vars

(***************************************************************************)
(* apply_controls step by step, between builds and edits of the settings   *)
(***************************************************************************)
PhaseScenarios ==
  { {"BodyMesh", "ArmMesh", "Hinge_Elbow"}, {"BodyMesh", "Hinge_Cyl", "RodMesh", "ClawMesh"},
    {"BodyMesh", "HookMesh"} }

InitPhases ==
  /\ selected = {}
  /\ symmetric_origin = "Origin"
  /\ rig_data = NoRigData
  /\ armature = NoArmature
  /\ scene = SceneAtRest
  /\ report = NoReport
  /\ prev = NoArmature
  /\ lastOp = "init"
  /\ builds = 0
  /\ edits = 0
  /\ probe = NoProbe
  /\ run = NoRun
  /\ ui = NoUi

\* the armature follows the run
RunStep(R, op) ==
  /\ run' = R
  /\ armature' = R.plan.amt
  /\ lastOp' = op
  /\ UNCHANGED <<ui, probe, selected, symmetric_origin, rig_data, scene, report, builds, edits>>

PhaseBuild(sel) == run.pc = "idle" /\ BuildRig(sel)

PhaseSetUseIk(b, v) == run.pc = "idle" /\ SetUseIk(b, v, TRUE)

PhaseSetChainLength(b, n) == run.pc = "idle" /\ SetChainLength(b, n, TRUE)

ControlsStart ==
  /\ run.pc = "idle"
  /\ armature.exists
  /\ run.runs < MaxApplies
  /\ prev' = armature
  /\ RunStep(StartRun(run, armature), "start")

ControlsPass1 ==
  /\ run.pc = "pass1"
  /\ run.todo # <<>>
  /\ UNCHANGED prev
  /\ RunStep(Pass1Step(run), "pass1")

ControlsPass2 ==
  /\ run.pc = "pass1"
  /\ run.todo = <<>>
  /\ UNCHANGED prev
  /\ RunStep(Pass2Step(run), "pass2")

ControlsCleanup ==
  /\ run.pc = "pass3"
  /\ UNCHANGED prev
  /\ RunStep(CleanupStep(run), "cleanup")

ControlsSetup ==
  /\ run.pc = "setup"
  /\ UNCHANGED prev
  /\ RunStep(SetupStep(run), "setup")

ControlsLocks ==
  /\ run.pc = "locks"
  /\ UNCHANGED prev
  /\ RunStep(LocksStep(run), "apply")

NextPhases ==
  \/ \E sel \in PhaseScenarios : PhaseBuild(sel)
  \/ \E b \in BoneNames(armature), v \in BOOLEAN : PhaseSetUseIk(b, v)
  \/ \E b \in BoneNames(armature), n \in ChainLengths : PhaseSetChainLength(b, n)
  \/ ControlsStart
  \/ ControlsPass1
  \/ ControlsPass2
  \/ ControlsCleanup
  \/ ControlsSetup
  \/ ControlsLocks

SpecPhases == InitPhases /\ [][NextPhases]_vars

(***************************************************************************)
(* The selection-sync handlers, one statement group at a time, on a host   *)
(* that calls them from inside each other's write and can raise            *)
(***************************************************************************)
UiSelections == {{}, {"BodyMesh", "ArmMesh", "Hinge_Elbow"}}

InitUi ==
  /\ selected \in UiSelections
  /\ symmetric_origin = "Origin"
  /\ rig_data = NoRigData
  /\ armature = IF selected = {} THEN NoArmature
                ELSE create_armature(analyze_hierarchy(selected), symmetric_origin, NoArmature)
  /\ scene = SceneAtRest
  /\ report = NoReport
  /\ prev = NoArmature
  /\ lastOp = "init"
  /\ builds = 0
  /\ edits = 0
  /\ probe = NoProbe
  /\ run = NoRun
  /\ ui = NoUi

UiStep(U, op) ==
  /\ ui' = U
  /\ lastOp' = op
  /\ UNCHANGED <<run, probe, selected, symmetric_origin, rig_data, armature, scene, report, prev, builds, edits>>

Idle == ui.stack = <<>>

At(handler, pc) == ~Idle /\ Top(ui).handler = handler /\ Top(ui).pc = pc

FreshEvent(U) == [U EXCEPT !.raised = FALSE, !.guarded = FALSE]

\* the user changes the mode of the armature object
UiSetMode(m) ==
  /\ Idle /\ ui.mode # m
  /\ UiStep([FreshEvent(ui) EXCEPT !.mode = m], "mode")

\* the user clicks entry i of the bone list: the host stores the index and
\* runs the update callback of the property
UiClick(i) ==
  /\ Idle
  /\ UiStep(Invoke([FreshEvent(ui) EXCEPT !.index = i], "update_bone_index"), "click")

\* the user makes bone b (or none) active in the 3D view: the host runs the
\* depsgraph handlers afterwards
UiPick(b) ==
  /\ Idle
  /\ UiStep(Invoke([FreshEvent(ui) EXCEPT !.active = b], "sync_selection_to_ui"), "pick")

\* any other depsgraph update
UiDepsgraph ==
  /\ Idle
  /\ UiStep(Invoke(FreshEvent(ui), "sync_selection_to_ui"), "depsgraph")

UiEnter ==
  /\ ~Idle /\ Top(ui).pc = "enter"
  /\ UiStep(handler_enter(ui, armature), "enter")

UiWriteActive(nested) ==
  /\ At("update_bone_index", "write")
  /\ UiStep(update_bone_index_write(ui, armature, nested), "write active")

UiSelectBone ==
  /\ At("update_bone_index", "select")
  /\ UiStep(update_bone_index_select(ui, armature), "select")

UiWriteIndex ==
  /\ At("sync_selection_to_ui", "write")
  /\ UiStep(sync_selection_write(ui, armature), "write index")

UiRaise ==
  /\ ~Idle /\ Top(ui).pc \in {"write", "select"}
  /\ UiStep(handler_raise(ui), "raise")

UiFinally ==
  /\ ~Idle /\ Top(ui).pc = "finally"
  /\ UiStep(handler_finally(ui), "finally")

NextUi ==
  \/ \E m \in UiModes : UiSetMode(m)
  \/ \E i \in -1..Len(armature.order) : UiClick(i)
  \/ \E b \in BoneNames(armature) \cup {None} : UiPick(b)
  \/ UiDepsgraph
  \/ UiEnter
  \/ \E nested \in BOOLEAN : UiWriteActive(nested)
  \/ UiSelectBone
  \/ UiWriteIndex
  \/ UiRaise
  \/ UiFinally

SpecUi == InitUi /\ [][NextUi]_vars

\* C27: a handler invoked while another one is between setting and clearing
\* the flag returns at once and leaves the active bone and the list index
\* alone, and the flag is clear whenever no handler is running, also after
\* the write raised.
C27_HandlersNeverReenter ==
  [][/\ (ui'.stack = <<>>) => ~ui'.flag
     /\ (Len(ui.stack) >= 2) =>
          /\ ui.flag
          /\ ui'.stack = SubSeq(ui.stack, 1, Len(ui.stack) - 1)
          /\ ui'.active = ui.active /\ ui'.index = ui.index /\ ui'.flag = ui.flag]_vars

\* update_bone_index has turned away a nested sync_selection_to_ui, its
\* second statement raised, and the handler is left with the flag clear
C27_Witness ==
  /\ lastOp = "finally"
  /\ ui.stack = <<>> /\ ui.raised /\ ui.guarded /\ ~ui.flag
  /\ ui.active # None /\ ui.select = {}

(***************************************************************************)
(* Both operators on a host that can raise inside any of their stages      *)
(***************************************************************************)
\* selections offered to the operator on the raising host
FaultSelections ==
  { {}, {"BodyMesh", "ArmMesh", "Hinge_Elbow"}, {"Hinge_Cyl", "RodMesh", "ClawMesh"}, {"RodMesh"},
    {"PinMesh", "Loose"} }

InitOps ==
  /\ selected = {}
  /\ symmetric_origin = "Origin"
  /\ rig_data = NoRigData
  /\ armature = NoArmature
  /\ scene = SceneAtRest
  /\ report = NoReport
  /\ prev = NoArmature
  /\ lastOp = "init"
  /\ builds = 0
  /\ edits = 0
  /\ probe = NoProbe
  /\ run = NoRun
  /\ ui = NoUi

\* what the run leaves behind, lastOp telling the stage that raised
AutoRigOutcome(X) ==
  /\ AutoRigStep(X.run)
  /\ lastOp' = IF X.raised = "" THEN "rig" ELSE "rig raised in " \o X.raised

OpAutoRig(sel, fault) ==
  /\ builds + edits < MaxRuns
  /\ Unbound(sel)
  /\ selected' = sel
  /\ AutoRigOutcome(AutoRig_execute_raising(sel, symmetric_origin, armature, scene, fault))
  /\ builds' = builds + 1
  /\ UNCHANGED <<run, ui, probe, symmetric_origin, edits>>

AddControlsOutcome(X) ==
  /\ prev' = armature
  /\ armature' = X.run.armature
  /\ report' = X.run.report
  /\ lastOp' = IF X.raised = "" THEN "controls" ELSE "controls raised in " \o X.raised

OpAddControls(fault) ==
  /\ builds + edits < MaxRuns
  /\ AddControlsOutcome(AddControls_execute(armature, fault))
  /\ edits' = edits + 1
  /\ UNCHANGED <<run, ui, probe, selected, symmetric_origin, rig_data, scene, builds>>

\* use_ik switched on in the panel before the controls are applied
OpSetUseIk(b) ==
  /\ builds + edits < MaxRuns
  /\ SetUseIk(b, TRUE, TRUE)

NextOps ==
  \/ \E sel \in FaultSelections, fault \in AutoRigFaults : OpAutoRig(sel, fault)
  \/ \E fault \in ControlFaults : OpAddControls(fault)
  \/ \E b \in BoneNames(armature) : OpSetUseIk(b)

SpecOps == InitOps /\ [][NextOps]_vars

(***************************************************************************)
(* The reflection through the origin applied repeatedly                    *)
(***************************************************************************)
\* world matrices of symmetric origins: unscaled, turned and displaced
ProbeOrigins ==
  {Origins[n] : n \in OriginNames}
    \cup {Mat(<<0, 0, -1>>, <<0, 1, 0>>, <<1, 0, 0>>, <<-50, 20, 30>>),
          Mat(<<1, 0, 0>>, <<0, 0, 1>>, <<0, -1, 0>>, <<0, 0, 70>>)}

\* world matrices of the objects whose heads are reflected
ProbeMatrices == {Objects[o].matrix_world : o \in ObjectNames}

\* the axes that are reflected: normalized columns of object matrices
ProbeAxes ==
  {Normalized(Objects[o].matrix_world.z) : o \in ObjectNames}
    \cup {Normalized(Objects[o].matrix_world.x) : o \in ObjectNames}
    \cup {<<-1, 0, 0>>, <<0, 0, -1>>}

InitMirror ==
  /\ selected = {}
  /\ symmetric_origin = None
  /\ rig_data = NoRigData
  /\ armature = NoArmature
  /\ scene = SceneAtRest
  /\ report = NoReport
  /\ prev = NoArmature
  /\ lastOp = "init"
  /\ builds = 0
  /\ edits = 0
  /\ run = NoRun
  /\ ui = NoUi
  /\ \E o \in ProbeOrigins, mat \in ProbeMatrices, axis \in ProbeAxes :
        probe = [NoProbe EXCEPT !.origin = o, !.m_start = mat, !.m_last = mat, !.m = mat,
                                !.a_start = axis, !.a_last = axis, !.a = axis]

\* get_mirrored_matrix applied to the matrix last obtained
MirrorMatrixAgain ==
  /\ probe.m_times < MaxReflections
  /\ probe' = [probe EXCEPT !.m = get_mirrored_matrix(probe.m, probe.origin), !.m_last = probe.m,
                             !.m_times = @ + 1]
  /\ lastOp' = "mirror"
  /\ UNCHANGED <<run, ui, selected, symmetric_origin, rig_data, armature, scene, report, prev, builds, edits>>

\* the direction reflection applied to the axis last obtained
MirrorAxisAgain ==
  /\ probe.a_times < MaxReflections
  /\ probe' = [probe EXCEPT !.a = MirrorAxis(probe.a, probe.origin), !.a_last = probe.a, !.a_times = @ + 1]
  /\ lastOp' = "mirror"
  /\ UNCHANGED <<run, ui, selected, symmetric_origin, rig_data, armature, scene, report, prev, builds, edits>>

NextMirror == MirrorMatrixAgain \/ MirrorAxisAgain

SpecMirror == InitMirror /\ [][NextMirror]_vars

(***************************************************************************)
(* Properties of analysis and synthesis (SpecSynth)                        *)
(***************************************************************************)
\* the point p reflected through the local-X plane of the origin
ReflectPoint(p, origin) ==
  LET o == Origins[origin]
      d == VSub(p, o.t)
      lx == d[1] * o.x[1] + d[2] * o.x[2] + d[3] * o.x[3]
  IN VSub(p, VScale(o.x, 2 * lx))

\* a selection of a root in a non-mirrored collection and one child of it
\* in a collection named <H>_Mirrored
IsMirroredPair(sel) ==
  \E g, h \in sel :
     /\ sel = {g, h} /\ g # h
     /\ Objects[g].users_collection # <<>> /\ Objects[h].users_collection # <<>>
     /\ Objects[g].parent \notin sel
     /\ Objects[h].parent = g
     /\ ~Contains(obj_to_col(g), "_Mirrored")
     /\ EndsWith(obj_to_col(h), "_Mirrored")

PairRoot(sel) == CHOOSE g \in sel : Objects[g].parent \notin sel

PairChild(sel) == CHOOSE h \in sel : Objects[h].parent \in sel

NodeNames(nodes, idxs) == [i \in 1..Len(idxs) |-> nodes[idxs[i]].name]

\* C1: for a root in collection G and a child in H_Mirrored, with an origin
\* set, the analysis gives the single root G with the children H_L and H_R,
\* and the first synthesis gives exactly the bones G, H_L and H_R, the head
\* of H_R being the head of H_L reflected through the origin.
C1_MirroredPairRig ==
  (IsMirroredPair(selected) /\ symmetric_origin # None /\ lastOp # "init") =>
    LET G == obj_to_col(PairRoot(selected))
        H == RemoveAll(obj_to_col(PairChild(selected)), "_Mirrored")
    IN /\ rig_data.ok
       /\ NodeNames(rig_data.nodes, rig_data.roots) = <<G>>
       /\ NodeNames(rig_data.nodes, rig_data.nodes[rig_data.roots[1]].children) = <<H \o "_L", H \o "_R">>
       /\ \A i \in 1..Len(rig_data.nodes) :
             i # rig_data.roots[1] => rig_data.nodes[i].children = <<>>
       /\ (lastOp = "synth" /\ builds = 1) =>
             /\ BoneNames(armature) = {G, H \o "_L", H \o "_R"}
             /\ armature.bones[H \o "_R"].head = ReflectPoint(armature.bones[H \o "_L"].head, symmetric_origin)

C1_Witness ==
  /\ IsMirroredPair(selected) /\ symmetric_origin # None
  /\ lastOp = "synth" /\ builds = 1
  /\ "Arm_R" \in BoneNames(armature)
  /\ armature.bones["Arm_R"].head # armature.bones["Arm_L"].head

\* C2: a second create_armature on the armature it produced, with the same
\* forest, leaves the set of bone names unchanged.
C2_ResynthesisKeepsBoneNames ==
  (lastOp = "synth" /\ builds = 2) => BoneNames(armature) = BoneNames(prev)

\* C10: analyze_hierarchy fails and returns no forest when a selected node
\* has no collection, and when no selected node is a root.
C10_AnalysisErrors ==
  (lastOp # "init" /\
     (\/ \E o \in selected : Objects[o].users_collection = <<>>
      \/ \A o \in selected : Objects[o].parent # None /\ Objects[o].parent \in selected)) =>
    /\ ~rig_data.ok
    /\ rig_data.error # ""
    /\ rig_data.nodes = <<>>
    /\ rig_data.roots = <<>>

C10_Witness ==
  /\ lastOp = "analyze"
  /\ "Loose" \in selected /\ "BodyMesh" \in selected
  /\ ~rig_data.ok

\* a node of a piston collection none of whose selected objects belongs to
\* the other member of the same piston id
LoneMember(node, sel) ==
  /\ NodePistonMatch(node).ok
  /\ ~\E q \in sel : /\ ObjectPistonMatch(q).ok
                     /\ ObjectPistonMatch(q).pid = NodePistonMatch(node).pid
                     /\ ObjectPistonMatch(q).ptype # NodePistonMatch(node).ptype

\* the default placement: head at the representative, tail along its local
\* Z axis at the default length
DefaultTail(node, origin) ==
  VAdd(calculate_bone_head(node, origin),
       VScale(SideAxis(node, origin, Normalized(Objects[node.origin_obj].matrix_world.z)),
              DefaultBoneLength(node.origin_obj)))

\* C12: after the first synthesis every piston member whose counterpart is
\* not in the selection has a bone of its name, of non-zero length, placed
\* by the default rule (head at the representative, tail along its axis).
C12_LoneMemberSynthesized ==
  (lastOp = "synth" /\ builds = 1) =>
    \A i \in 1..Len(rig_data.nodes) :
       LoneMember(rig_data.nodes[i], selected) =>
         /\ rig_data.nodes[i].name \in BoneNames(armature)
         /\ armature.bones[rig_data.nodes[i].name].head = calculate_bone_head(rig_data.nodes[i], symmetric_origin)
         /\ armature.bones[rig_data.nodes[i].name].tail = DefaultTail(rig_data.nodes[i], symmetric_origin)
         /\ armature.bones[rig_data.nodes[i].name].tail # armature.bones[rig_data.nodes[i].name].head

\* the node create_armature finds as the counterpart of a piston member:
\* the other member under the member's own (id, side) key, 0 when absent
Counterpart(node, F) ==
  PistonGet(collect_pistons(F.roots, <<>>, F), NodePistonMatch(node).pid \o SideSuffix(node),
            IF NodePistonMatch(node).ptype = "Cyl" THEN "Rod" ELSE "Cyl")

\* C13: when validate_selection has no error for the selection, every
\* piston member node of the forest finds its counterpart in the piston map
\* under its own (id, side) key.
C13_ValidatedPairsHaveCounterparts ==
  (rig_data.ok /\ validate_selection(selected, symmetric_origin)) =>
    \A i \in 1..Len(rig_data.nodes) :
       NodePistonMatch(rig_data.nodes[i]).ok => Counterpart(rig_data.nodes[i], rig_data) # 0

\* node_to_bone of the last synthesis: pairs of node index and bone name
NodeToBone ==
  create_bones_recursive(rig_data.roots, None, [amt |-> ArmatureToEdit(prev), node_to_bone |-> <<>>],
                         rig_data, symmetric_origin, collect_pistons(rig_data.roots, <<>>, rig_data)).node_to_bone

\* the bone node_to_bone names for node i
BoneOf(ntb, i) == ntb[CHOOSE k \in 1..Len(ntb) : ntb[k][1] = i][2]

\* the bones of the nodes i and j point at each other
LookAtEachOther(amt, bi, bj) ==
  /\ {bi, bj} \subseteq BoneNames(amt)
  /\ amt.bones[bi].tail = amt.bones[bj].head
  /\ amt.bones[bj].tail = amt.bones[bi].head

\* every Cyl node and Rod node that find each other under one (id, side)
\* key and whose heads differ have bones that point at each other
PairsLookAtEachOther(ntb) ==
  \A i, j \in 1..Len(rig_data.nodes) :
     (/\ NodePistonMatch(rig_data.nodes[i]).ok
      /\ NodePistonMatch(rig_data.nodes[i]).ptype = "Cyl"
      /\ Counterpart(rig_data.nodes[i], rig_data) = j
      /\ Counterpart(rig_data.nodes[j], rig_data) = i
      /\ calculate_bone_head(rig_data.nodes[i], symmetric_origin)
            # calculate_bone_head(rig_data.nodes[j], symmetric_origin)) =>
       LookAtEachOther(armature, BoneOf(ntb, i), BoneOf(ntb, j))

\* C14: after create_armature, for every Cyl node and Rod node that find
\* each other under one (id, side) key and whose heads differ, the tail of
\* the Cyl bone is the head of the Rod bone and the tail of the Rod bone is
\* the head of the Cyl bone.
C14_PistonPairLooksAtEachOther ==
  (lastOp = "synth") => PairsLookAtEachOther(NodeToBone)

\* a mirrored pair synthesized with a turned origin: the Right bones point
\* at each other
C14_Witness ==
  /\ lastOp = "synth"
  /\ symmetric_origin = "OriginTurned"
  /\ {"Piston_1_Cyl_R", "Piston_1_Rod_R"} \subseteq BoneNames(armature)
  /\ armature.bones["Piston_1_Cyl_R"].head # armature.bones["Piston_1_Cyl_L"].head
  /\ armature.bones["Piston_1_Cyl_R"].tail = armature.bones["Piston_1_Rod_R"].head

\* node a lies on the way from a root to node i
RECURSIVE IsAncestor(_, _, _)
IsAncestor(nodes, a, i) ==
  /\ nodes[i].parent # 0
  /\ (nodes[i].parent = a \/ IsAncestor(nodes, a, nodes[i].parent))

\* the collection a BoneNode was made for
NodeCollection(node) == obj_to_col(node.origin_obj)

\* C15: for a selection that uses no _Mirrored collection, no two BoneNodes
\* on one root-to-leaf path of the forest belong to the same collection.
C15_OneNodePerCollectionOnPath ==
  (rig_data.ok /\ ~uses_mirrored_collection(selected)) =>
    \A i, a \in 1..Len(rig_data.nodes) :
       IsAncestor(rig_data.nodes, a, i) =>
         NodeCollection(rig_data.nodes[i]) # NodeCollection(rig_data.nodes[a])

\* C17: the forest of one analyze_hierarchy call never holds two
\* BoneNodes of the same collection and side, nor two of the same name.
C17_OneNodePerCollectionAndSide ==
  rig_data.ok =>
    \A i, j \in 1..Len(rig_data.nodes) :
       i # j =>
         /\ <<NodeCollection(rig_data.nodes[i]), rig_data.nodes[i].is_mirrored_side>>
              # <<NodeCollection(rig_data.nodes[j]), rig_data.nodes[j].is_mirrored_side>>
         /\ rig_data.nodes[i].name # rig_data.nodes[j].name

\* the subtrees of nodes i and j have the same shape
RECURSIVE SameShape(_, _, _)
SameShape(nodes, i, j) ==
  /\ Len(nodes[i].children) = Len(nodes[j].children)
  /\ \A k \in 1..Len(nodes[i].children) : SameShape(nodes, nodes[i].children[k], nodes[j].children[k])

\* a selected object of a _Mirrored collection that starts a new bone: it is
\* a root of the selection or its parent is in another collection
StartsMirroredBone(o, sel) ==
  /\ Contains(obj_to_col(o), "_Mirrored")
  /\ (Objects[o].parent \notin sel \/ obj_to_col(Objects[o].parent) # obj_to_col(o))

\* the Left and Right BoneNodes of a collection, linked as siblings
IsSidePair(nodes, i, j, col) ==
  /\ nodes[i].is_mirrored_side = "L" /\ nodes[i].name = RemoveAll(col, "_Mirrored") \o "_L"
  /\ nodes[j].is_mirrored_side = "R" /\ nodes[j].name = RemoveAll(col, "_Mirrored") \o "_R"
  /\ nodes[i].sibling_r = j
  /\ NodeCollection(nodes[i]) = col /\ NodeCollection(nodes[j]) = col

\* C16 as stated: every Left BoneNode and its Right sibling have subtrees of
\* the same shape.
C16_Original ==
  rig_data.ok =>
    \A i \in 1..Len(rig_data.nodes) :
       rig_data.nodes[i].sibling_r # 0 => SameShape(rig_data.nodes, i, rig_data.nodes[i].sibling_r)

\* C16: every selected object of a _Mirrored collection that starts a new
\* bone yields a Left and a Right BoneNode, and the subtrees of a Left node
\* and its Right sibling have the same shape whenever no BoneNode of a
\* non-mirrored collection lies below the Left node; the node of a
\* non-mirrored collection is never the child of a Right node.
C16_MirroredPairsSameShape ==
  rig_data.ok =>
    /\ \A o \in selected :
          StartsMirroredBone(o, selected) =>
            \E i, j \in 1..Len(rig_data.nodes) : IsSidePair(rig_data.nodes, i, j, obj_to_col(o))
    /\ \A i \in 1..Len(rig_data.nodes) :
          (/\ rig_data.nodes[i].sibling_r # 0
           /\ \A d \in 1..Len(rig_data.nodes) :
                 IsAncestor(rig_data.nodes, i, d) => rig_data.nodes[d].is_mirrored_side # "None") =>
            SameShape(rig_data.nodes, i, rig_data.nodes[i].sibling_r)
    /\ \A d \in 1..Len(rig_data.nodes) :
          (rig_data.nodes[d].is_mirrored_side = "None" /\ rig_data.nodes[d].parent # 0) =>
            rig_data.nodes[rig_data.nodes[d].parent].is_mirrored_side # "R"

\* a mirrored arm with two mirrored children: both sides carry two children
C16_Witness ==
  /\ rig_data.ok
  /\ \E i \in 1..Len(rig_data.nodes) :
        /\ rig_data.nodes[i].name = "Arm_L"
        /\ rig_data.nodes[i].sibling_r # 0
        /\ Len(rig_data.nodes[i].children) = 2
        /\ Len(rig_data.nodes[rig_data.nodes[i].sibling_r].children) = 2

\* the scene-node roots in scene order: selected objects whose parent is
\* absent or outside the selection
SceneRoots(sel) == SelectIn(SceneOrder, {o \in sel : Objects[o].parent = None \/ Objects[o].parent \notin sel})

\* name and side of the root BoneNodes a sequence of scene roots stands for
RECURSIVE ExpectedRoots(_)
ExpectedRoots(objs) ==
  IF objs = <<>> THEN <<>>
  ELSE (IF Contains(obj_to_col(Head(objs)), "_Mirrored")
        THEN <<<<RemoveAll(obj_to_col(Head(objs)), "_Mirrored") \o "_L", "L">>,
               <<RemoveAll(obj_to_col(Head(objs)), "_Mirrored") \o "_R", "R">>>>
        ELSE <<<<obj_to_col(Head(objs)), "None">>>>)
       \o ExpectedRoots(Tail(objs))

\* C18 as stated: the forest has as many root BoneNodes as the selection
\* has scene-node roots.
C18_Original ==
  rig_data.ok => Len(rig_data.roots) = Len(SceneRoots(selected))

\* C18: the root BoneNodes are, in the order of the scene-node roots, one
\* node for every root of a non-mirrored collection and the Left and the
\* Right node for every root of a _Mirrored collection; no other BoneNode is
\* without a parent.
C18_RootsPerSceneRoot ==
  rig_data.ok =>
    /\ [k \in 1..Len(rig_data.roots) |->
          <<rig_data.nodes[rig_data.roots[k]].name, rig_data.nodes[rig_data.roots[k]].is_mirrored_side>>]
         = ExpectedRoots(SceneRoots(selected))
    /\ \A i \in 1..Len(rig_data.nodes) :
          rig_data.nodes[i].parent = 0 <=> \E k \in 1..Len(rig_data.roots) : rig_data.roots[k] = i

\* a forest with the two roots of a mirrored scene root and the single root
\* of a non-mirrored one
C18_Witness ==
  /\ rig_data.ok
  /\ Len(SceneRoots(selected)) = 2
  /\ Len(rig_data.roots) = 3
  /\ \E k \in 1..3 : rig_data.nodes[rig_data.roots[k]].is_mirrored_side = "None"

\* a rotation limit with X and Z locked to the zero range and Y free
IsHingeLock(c) ==
  /\ c.type = "LIMIT_ROTATION"
  /\ c.use_limit = <<TRUE, FALSE, TRUE>>
  /\ c.min[1] = 0 /\ c.max[1] = 0 /\ c.min[3] = 0 /\ c.max[3] = 0

\* the bone of a hinge node carries the one limit, any other bone nothing
HingeLimitOn(node, bone) ==
  IF StartsWith(node.name, "Hinge_") \/ StartsWith(node.origin_obj, "Hinge_")
  THEN Len(bone.constraints) = 1 /\ IsHingeLock(bone.constraints[1])
  ELSE bone.constraints = <<>>

\* every bone node_to_bone names, and that is left in the armature
HingeLimits(ntb) ==
  \A k \in 1..Len(ntb) :
     ntb[k][2] \in BoneNames(armature) =>
       HingeLimitOn(rig_data.nodes[ntb[k][1]], armature.bones[ntb[k][2]])

\* C19: after create_armature the bone of a node whose name or whose
\* representative object's name starts with Hinge_ carries one rotation
\* limit, X and Z locked and Y free, and the bone of any other node carries
\* no constraint.
C19_HingeBonesGetTheLimit ==
  (lastOp = "synth") => HingeLimits(NodeToBone)

\* a synthesis with a hinge by collection name, a hinge by object name and
\* a bone that is no hinge
C19_Witness ==
  /\ lastOp = "synth"
  /\ {"Hinge_Pin", "Forearm", "Body"} \subseteq BoneNames(armature)
  /\ IsHingeLock(armature.bones["Hinge_Pin"].constraints[1])
  /\ IsHingeLock(armature.bones["Forearm"].constraints[1])
  /\ armature.bones["Body"].constraints = <<>>

\* the names a bone made for a node of this name can have after several runs
NamesAfterRuns(name) == {name} \cup {name \o ".00" \o Digit(k) : k \in 1..MaxBuilds}

\* the bones that some synthesis run made for a hinge node
HingeBones(amt, F) ==
  {b \in BoneNames(amt) :
     \E i \in 1..Len(F.nodes) : IsHinge(F.nodes[i]) /\ b \in NamesAfterRuns(F.nodes[i].name)}

RotationLimits(bone) == SelectSeq(bone.constraints, LAMBDA c : c.type = "LIMIT_ROTATION")

\* C26: after any number of runs of create_armature on the same forest
\* every bone made for a hinge node carries exactly one rotation limit, and
\* no bone carries more than one.
C26_ResynthesisAddsNoSecondLimit ==
  (builds >= 1) =>
    /\ \A b \in HingeBones(armature, rig_data) : Len(RotationLimits(armature.bones[b])) = 1
    /\ \A b \in BoneNames(armature) : Len(RotationLimits(armature.bones[b])) <= 1

\* a second synthesis: the hinge bone of the first run and the one the
\* second run made beside it carry one limit each
C26_Witness ==
  /\ builds = 2
  /\ {"Hinge_Pin", "Hinge_Pin.001"} \subseteq HingeBones(armature, rig_data)
  /\ Len(RotationLimits(armature.bones["Hinge_Pin"])) = 1
  /\ Len(RotationLimits(armature.bones["Hinge_Pin.001"])) = 1

(***************************************************************************)
(* Properties of the analysis of merged objects (SpecPivot)                *)
(***************************************************************************)
\* the objects in the order the traversal visits them
RECURSIVE Preorder(_, _)
Preorder(objs, sel) ==
  IF objs = <<>> THEN <<>>
  ELSE <<Head(objs)>>
       \o Preorder(SelectIn(SceneOrder, {c \in sel : Objects[c].parent = Head(objs)}), sel)
       \o Preorder(Tail(objs), sel)

\* o is a root or lies in another collection than its parent
StartsBone(o, sel) ==
  \/ Objects[o].parent = None
  \/ Objects[o].parent \notin sel
  \/ obj_to_col(o) # obj_to_col(Objects[o].parent)

\* the object that started the bone o is merged into
RECURSIVE Starter(_, _)
Starter(o, sel) == IF StartsBone(o, sel) THEN o ELSE Starter(Objects[o].parent, sel)

\* the Hinge_ object merged into the bone of s that is visited last, s when
\* there is none
RECURSIVE LastPivot(_, _, _, _)
LastPivot(order, s, sel, sofar) ==
  IF order = <<>> THEN sofar
  ELSE LastPivot(Tail(order), s, sel,
                 IF Head(order) # s /\ Starter(Head(order), sel) = s /\ StartsWith(Head(order), "Hinge_")
                 THEN Head(order) ELSE sofar)

\* the representatives of the nodes in the order the nodes are made: one for
\* the starter of a plain collection, two for the starter of a mirrored one
RECURSIVE ExpectedRepresentatives(_, _, _)
ExpectedRepresentatives(rest, order, sel) ==
  IF rest = <<>> THEN <<>>
  ELSE (IF ~StartsBone(Head(rest), sel) THEN <<>>
        ELSE IF Contains(obj_to_col(Head(rest)), "_Mirrored")
        THEN <<LastPivot(order, Head(rest), sel, Head(rest)), LastPivot(order, Head(rest), sel, Head(rest))>>
        ELSE <<LastPivot(order, Head(rest), sel, Head(rest))>>)
       \o ExpectedRepresentatives(Tail(rest), order, sel)

\* the nodes have exactly the representatives reps, in their order
RepresentativesAre(reps) ==
  /\ Len(rig_data.nodes) = Len(reps)
  /\ \A i \in 1..Len(reps) : rig_data.nodes[i].origin_obj = reps[i]

\* C24: analyze_hierarchy makes no BoneNode for an object in the collection
\* of its parent context (one node for every object that starts a plain
\* collection, two for one that starts a mirrored collection, none else),
\* and the representative of a node is the Hinge_ object merged into it
\* that the depth-first traversal visits last, on the Left and on the Right
\* node alike, or the starting object when no Hinge_ object is merged.
C24_LastMergedHingeIsRepresentative ==
  (lastOp = "analyze" /\ rig_data.ok) =>
     RepresentativesAre(ExpectedRepresentatives(Preorder(SceneRoots(selected), selected),
                                                Preorder(SceneRoots(selected), selected), selected))

\* three objects merged into Body, the hinge visited last being neither the
\* deepest nor the last of the scene, and a hinge merged into a mirrored arm
C24_Witness ==
  /\ lastOp = "analyze"
  /\ {"BodyMesh", "ArmMesh", "Plate", "Hinge_Base", "Hinge_Top", "Hinge_Arm"} \subseteq selected
  /\ Len(rig_data.nodes) = IF "Hinge_Elbow" \in selected THEN 4 ELSE 3
  /\ \E i, l, r \in 1..Len(rig_data.nodes) :
        /\ rig_data.nodes[i].name = "Body" /\ rig_data.nodes[i].origin_obj = "Hinge_Base"
        /\ rig_data.nodes[l].name = "Arm_L" /\ rig_data.nodes[l].origin_obj = "Hinge_Arm"
        /\ rig_data.nodes[r].name = "Arm_R" /\ rig_data.nodes[r].origin_obj = "Hinge_Arm"

(***************************************************************************)
(* Properties of control generation (Spec)                                 *)
(***************************************************************************)
Settings(amt, b) == amt.bones[b].mech_rig_settings

HasIkTo(amt, b, target) ==
  \E i \in 1..Len(amt.bones[b].constraints) :
     amt.bones[b].constraints[i].type = "IK" /\ amt.bones[b].constraints[i].subtarget = target

HasIk(amt, b) == \E i \in 1..Len(amt.bones[b].constraints) : amt.bones[b].constraints[i].type = "IK"

HandledAsPiston(amt, b) == apply_piston_constraints(amt, b).is_piston

\* the bones apply_controls runs its IK logic on when use_ik is set
IkOwners(amt) ==
  {b \in BoneNames(amt) : Settings(amt, b).use_ik /\ ~EndsWith(b, IkSuffix) /\ ~HandledAsPiston(amt, b)}

\* the tasks the last run of apply_controls planned
LastTasks == Plan(prev).ik_tasks

NewBones == BoneNames(armature) \ BoneNames(prev)

\* C3: a second apply_controls with the same settings changes neither the
\* set of bones nor the constraints of any bone.
C3_ApplyTwiceSame ==
  lastOp = "apply" =>
    LET again == apply_controls(armature)
    IN /\ BoneNames(again) = BoneNames(armature)
       /\ \A b \in BoneNames(armature) : again.bones[b].constraints = armature.bones[b].constraints

C3_Witness ==
  /\ lastOp = "apply"
  /\ "Claw_IK" \in BoneNames(armature)
  /\ HasIkTo(armature, "Claw", "Claw_IK")
  /\ HasConstraintNamed(armature.bones["Piston_1_Cyl"].constraints, "Piston_Limit")

\* C4 as claimed: after apply_controls every bone with use_ik enabled has an
\* IK constraint aimed at <bone>_IK, and that bone exists.
C4_Original ==
  lastOp = "apply" =>
    \A b \in BoneNames(armature) :
       Settings(armature, b).use_ik =>
          /\ HasIkTo(armature, b, b \o IkSuffix)
          /\ (b \o IkSuffix) \in BoneNames(armature)

\* C4 amended: the same for every bone with use_ik enabled whose name does
\* not end in _IK and that is not handled as a piston.
C4_IkOnEnabledBones ==
  lastOp = "apply" =>
    \A b \in IkOwners(armature) :
       /\ HasIkTo(armature, b, b \o IkSuffix)
       /\ (b \o IkSuffix) \in BoneNames(armature)

C4_Witness ==
  /\ lastOp = "apply"
  /\ \E b \in IkOwners(armature) : ~HasIk(prev, b) /\ HasIkTo(armature, b, b \o IkSuffix)

C7_WithdrawnIkIsRemoved ==
  lastOp = "apply" =>
    \A b \in BoneNames(prev) :
       (~Settings(prev, b).use_ik /\ HasIk(prev, b)) =>
          /\ b \in BoneNames(armature)
          /\ ~HasIk(armature, b)
          /\ (b \o IkSuffix) \notin BoneNames(armature)
          /\ apply_controls(armature) = armature

C7_Witness ==
  /\ lastOp = "apply"
  /\ \E b \in BoneNames(prev) :
        /\ ~Settings(prev, b).use_ik /\ HasIk(prev, b)
        /\ (b \o IkSuffix) \in BoneNames(prev)

Min(a, b) == IF a <= b THEN a ELSE b

RECURSIVE ChainBones(_, _, _)
ChainBones(amt, b, n) ==
  IF n = 0 THEN {}
  ELSE {b} \cup (IF amt.bones[b].parent # None THEN ChainBones(amt, amt.bones[b].parent, n - 1) ELSE {})

\* C9: every axis limited by a rotation limit of a bone in an IK chain has
\* its hard IK lock set when the range is collapsed, and otherwise its soft
\* IK limit enabled with that range.
C9_LimitsBecomeIkLocks ==
  lastOp = "apply" =>
    \A b \in IkOwners(armature) :
       \A k \in ChainBones(armature, b, Settings(armature, b).ik_chain_length) :
          \A i \in 1..Len(armature.bones[k].constraints) :
             LET c == armature.bones[k].constraints[i]
                 pb == armature.bones[k]
             IN c.type = "LIMIT_ROTATION" =>
                   \A a \in Axes :
                      c.use_limit[a] =>
                         IF IsCollapsed(c.min[a], c.max[a])
                         THEN pb.lock_ik[a]
                         ELSE pb.use_ik_limit[a] /\ pb.ik_min[a] = c.min[a] /\ pb.ik_max[a] = c.max[a]

\* the places of the constraints of one type on a bone
ConstraintsOfType(bone, type) == {i \in 1..Len(bone.constraints) : bone.constraints[i].type = type}

\* a rotation limit that locks two axes to the zero range and leaves the
\* third unlimited
LocksTwoAxes(c) ==
  \E free \in 1..3 :
     /\ ~c.use_limit[free]
     /\ \A a \in (1..3) \ {free} : c.use_limit[a] /\ c.min[a] = 0 /\ c.max[a] = 0

\* C23: after apply_controls, run once or again, on a rig nobody edited,
\* every piston bone whose counterpart bone exists carries exactly one
\* damped-track constraint, aimed at the counterpart with the same suffix,
\* and exactly one rotation-limit constraint, which locks two local axes
\* to the zero range and leaves the third unlimited.
C23_PistonBonesTrackAndLimit ==
  (lastOp = "apply" /\ edits = 0) =>
    \A b \in BoneNames(armature) :
       (/\ re_search_piston(b).ok
        /\ PistonTargetName(b, re_search_piston(b)) \in BoneNames(armature)) =>
         /\ \E i \in 1..Len(armature.bones[b].constraints) :
               /\ ConstraintsOfType(armature.bones[b], "DAMPED_TRACK") = {i}
               /\ armature.bones[b].constraints[i].subtarget = PistonTargetName(b, re_search_piston(b))
         /\ \E i \in 1..Len(armature.bones[b].constraints) :
               /\ ConstraintsOfType(armature.bones[b], "LIMIT_ROTATION") = {i}
               /\ LocksTwoAxes(armature.bones[b].constraints[i])

(***************************************************************************)
(* Properties of the passes of apply_controls (SpecPhases)                 *)
(***************************************************************************)
RECURSIVE IkConstraintsOf(_)
IkConstraintsOf(cons) ==
  IF cons = <<>> THEN <<>>
  ELSE (IF Head(cons).type = "IK" THEN <<Head(cons)>> ELSE <<>>) \o IkConstraintsOf(Tail(cons))

\* what a bone carries for IK: its IK constraints with length, target and
\* driver, its IK locks and limits and the properties of an IK target
IkOf(amt, n) ==
  [ik |-> IkConstraintsOf(amt.bones[n].constraints), lock_ik |-> amt.bones[n].lock_ik,
   use_ik_limit |-> amt.bones[n].use_ik_limit, ik_min |-> amt.bones[n].ik_min,
   ik_max |-> amt.bones[n].ik_max, props |-> amt.bones[n].props]

\* the same without the chain lengths
IkOfButLength(amt, n) ==
  [IkOf(amt, n) EXCEPT !.ik = [i \in 1..Len(@) |-> [@[i] EXCEPT !.chain_count = 0]]]

\* a step of a run from state to state
IsRunStep == run.pc # "idle" \/ run'.pc # "idle"

\* what the sentence says of one step of a run, but for the writes of IK data
PhaseDiscipline ==
  /\ (BoneNames(armature') # BoneNames(armature)) => (lastOp' = "pass2" /\ run'.edit_entries = run.edit_entries + 1)
  /\ run'.edit_entries <= 1
  /\ (lastOp' = "pass1") => (run'.edit_entries = 0 /\ run'.epoch = 0)
  /\ run'.handles = run'.epoch

IncompletePistonPair(sel) ==
  \E o \in sel :
     /\ ObjectPistonMatch(o).ok
     /\ ~\E q \in sel : /\ ObjectPistonMatch(q).ok
                        /\ ObjectPistonMatch(q).pid = ObjectPistonMatch(o).pid
                        /\ ObjectPistonMatch(q).ptype # ObjectPistonMatch(o).ptype

\* the four faults of a selection
FaultySelection(sel, origin) ==
  \/ (\E o \in sel : \E i \in 1..Len(Objects[o].users_collection) :
          Contains(Objects[o].users_collection[i], "_Mirrored")) /\ origin = None
  \/ IncompletePistonPair(sel)
  \/ \E o \in sel : Objects[o].users_collection = <<>>
  \/ \A o \in sel : Objects[o].parent # None /\ Objects[o].parent \in sel

BonesWithGeometry(scn) ==
  {scn.objects[n].parent_bone : n \in {x \in DOMAIN scn.objects : scn.objects[x].parent_type = "BONE"}}

\* C21: after a run of the operator that finished, the scene holds an
\* object named Rigged_Mesh with a vertex group named after every bone that
\* owns geometry.
C21_RiggedMeshAfterFinish ==
  (lastOp = "rig" /\ report.result = "FINISHED") =>
     /\ "Rigged_Mesh" \in DOMAIN scene.objects
     /\ BonesWithGeometry(scene) \subseteq scene.objects["Rigged_Mesh"].vertex_groups

C20_ReflectionIsInvolution ==
  /\ probe.m_times % 2 = 0 => probe.m = probe.m_start
  /\ probe.a_times % 2 = 0 => probe.a = probe.a_start

\* a point off the mirror plane and an axis across it, each reflected twice
C20_Witness ==
  /\ probe.m_times = 2 /\ probe.m.t = probe.m_start.t /\ probe.m_last.t # probe.m_start.t
  /\ probe.a_times = 2 /\ probe.a = probe.a_start /\ probe.a_last # probe.a_start

(***************************************************************************)
(* Properties of the bones apply_controls removes (SpecPhases) and of the  *)
(* IK locks and chain lengths it leaves (Spec)                             *)
(***************************************************************************)
\* the bones create_armature made: they deform, the IK targets of
\* apply_controls do not
SynthesizedBones(amt) == {b \in BoneNames(amt) : amt.bones[b].use_deform}

\* C28: no step of an apply_controls run removes a bone that synthesis
\* made, whatever the bone is called and whatever the use_ik settings are.
C28_SynthesizedBonesSurvive ==
  [][IsRunStep => SynthesizedBones(armature) \subseteq BoneNames(armature')]_vars

\* the one rotation limit of a bone that carries exactly one
TheRotationLimit(bone) == bone.constraints[CHOOSE i \in ConstraintsOfType(bone, "LIMIT_ROTATION") : TRUE]

\* hard lock exactly on the axes limited to a collapsed range, soft limit
\* exactly on the axes limited to a wider one
LocksMirror(pb, c) ==
  \A a \in Axes :
     /\ pb.lock_ik[a] <=> (c.use_limit[a] /\ IsCollapsed(c.min[a], c.max[a]))
     /\ pb.use_ik_limit[a] <=> (c.use_limit[a] /\ ~IsCollapsed(c.min[a], c.max[a]))

\* C29: after apply_controls, whatever runs and edits of rotation limits
\* came before, every bone of an IK chain that carries one rotation limit
\* has its hard IK locks and its soft IK limits on exactly the axes the
\* limit as it is now asks for.
C29_IkLocksMirrorCurrentLimits ==
  lastOp = "apply" =>
    \A b \in IkOwners(armature) :
       \A k \in ChainBones(armature, b, Settings(armature, b).ik_chain_length) :
          Cardinality(ConstraintsOfType(armature.bones[k], "LIMIT_ROTATION")) = 1 =>
             LocksMirror(armature.bones[k], TheRotationLimit(armature.bones[k]))

\* the chain lengths of the IK constraints of a bone
ChainCounts(amt, b) ==
  {amt.bones[b].constraints[i].chain_count : i \in ConstraintsOfType(amt.bones[b], "IK")}

\* C30: after apply_controls every IK constraint of a bone with use_ik set
\* that is not handled as a piston has the bone's ik_chain_length as it is
\* now for its chain length, be the constraint new or left by an earlier run.
C30_ChainLengthFollowsSetting ==
  lastOp = "apply" =>
    \A b \in BoneNames(armature) :
       (Settings(armature, b).use_ik /\ ~HandledAsPiston(armature, b)) =>
          ChainCounts(armature, b) \subseteq {Settings(armature, b).ik_chain_length}

\* a constraint left by an earlier run with another length, brought to the
\* setting by this run
C30_Witness ==
  /\ lastOp = "apply"
  /\ \E b \in BoneNames(armature) :
        /\ Settings(armature, b).use_ik /\ ~HandledAsPiston(armature, b)
        /\ b \in BoneNames(prev) /\ ChainCounts(prev, b) # {}
        /\ Settings(armature, b).ik_chain_length \notin ChainCounts(prev, b)
        /\ ChainCounts(armature, b) = {Settings(armature, b).ik_chain_length}

====
